---------------------------- MODULE Spec2Model ----------------------------
(***************************************************************************)
(* Model of viem-hw: the device connection state machines of the Ledger    *)
(* manager (src/ledger/device.ts), the Trezor manager (src/trezor/device.ts*)
(* with the connect-broker singleton of src/trezor/connect.ts) and the     *)
(* mock Ledger manager, with the error classifiers and the path validator  *)
(* they call.                                                              *)
(*                                                                         *)
(* Granularity.  JavaScript runs every piece of code between two awaits to *)
(* completion; an action of this model is one such piece: the call of a    *)
(* public operation up to its first await on a vendor capability, or the   *)
(* resumption after a vendor capability has resolved or rejected up to the *)
(* next await (or to the settlement of the call).  Vendor outcomes are     *)
(* chosen nondeterministically.  Calls on a manager are single-flight: a   *)
(* new call starts only when no call is in flight, which is the use the    *)
(* managers are written for (they keep one transport, one app and one      *)
(* state per manager and take no lock).  Listeners are passive observers:  *)
(* they record what they are told and the state they read.                 *)
(***************************************************************************)
EXTENDS Integers, Sequences, FiniteSets, TLC

(***************************************************************************)
(* Bounds of the model.                                                    *)
(***************************************************************************)
MaxOpened == 2
MaxSubs == 2
NumListeners == 2
\* the signature scalars r and s are words of WordBits bits (32 bytes in the
\* program), the recovery values a device returns range over 0..MaxV, and
\* those normalizeV is given over -MaxV..MaxV
WordBits == 4
MaxV == 40
\* the index of a path segment has IndexBits bits (31 in the program, where
\* the largest index is 0x7fffffff and the hardened offset 0x80000000), and
\* the paths given to the path functions have up to MaxSegments segments
IndexBits == 7
MaxSegments == 2
\* discovery is asked for up to MaxCount accounts
MaxCount == 2

\* integer fields of a transaction are tried from 0 to MaxSmallInteger
MaxSmallInteger == 300

ListenerIds == 1..NumListeners

Range(s) == {s[i] : i \in 1..Len(s)}

(***************************************************************************)
(* Strings are sequences of one-character strings.                         *)
(***************************************************************************)
DigitChars == <<"0", "1", "2", "3", "4", "5", "6", "7", "8", "9">>

IsDigit(c) == \E i \in 1..10 : DigitChars[i] = c

DigitValue(c) == (CHOOSE i \in 1..10 : DigitChars[i] = c) - 1

startsWith(s, prefix) ==
  /\ Len(s) >= Len(prefix)
  /\ SubSeq(s, 1, Len(prefix)) = prefix

endsWith(s, c) == Len(s) >= 1 /\ s[Len(s)] = c

\* s.slice(n): the string without its first n characters
sliceFrom(s, n) == IF n >= Len(s) THEN <<>> ELSE SubSeq(s, n + 1, Len(s))

\* s.slice(0, -1)
dropLast(s) == IF Len(s) = 0 THEN <<>> ELSE SubSeq(s, 1, Len(s) - 1)

\* s.split("/"): always at least one part, "" splits to <<"">>
RECURSIVE split(_)
split(s) ==
  IF \A i \in 1..Len(s) : s[i] # "/"
    THEN <<s>>
    ELSE LET k == CHOOSE i \in 1..Len(s) :
                    s[i] = "/" /\ \A j \in 1..(i - 1) : s[j] # "/"
         IN <<SubSeq(s, 1, k - 1)>> \o split(sliceFrom(s, k))

\* /^\d+$/.test(s)
allDigits(s) == Len(s) >= 1 /\ \A i \in 1..Len(s) : IsDigit(s[i])

\* parseInt(s, 10) of a string of digits
RECURSIVE parseDigits(_)
parseDigits(s) ==
  IF Len(s) = 0 THEN 0
  ELSE 10 * parseDigits(dropLast(s)) + DigitValue(s[Len(s)])

\* 0x7fffffff, scaled with the width of an index
MAX_INDEX == 2^IndexBits - 1

\* isValidPart without the upper limit of an index
isValidPart_unbounded(part) ==
  LET isHardened == endsWith(part, "'")
      numStr == IF isHardened THEN dropLast(part) ELSE part
  IN allDigits(numStr)

isValidPart(part) ==
  LET isHardened == endsWith(part, "'")
      numStr == IF isHardened THEN dropLast(part) ELSE part
  IN /\ allDigits(numStr)
     /\ parseDigits(numStr) >= 0
     /\ parseDigits(numStr) <= MAX_INDEX

isValidPath(path) ==
  IF ~startsWith(path, <<"m", "/">>) THEN FALSE
  ELSE LET parts == split(sliceFrom(path, 2))
       IN IF Len(parts) = 0 \/ (Len(parts) = 1 /\ parts[1] = <<>>) THEN FALSE
          ELSE \A i \in 1..Len(parts) : isValidPart(parts[i])

DEFAULT_BASE_PATH ==
  <<"m", "/", "4", "4", "'", "/", "6", "0", "'", "/", "0", "'", "/", "0">>

(***************************************************************************)
(* Errors.  A thrown value is a record: hw says whether it is an instance  *)
(* of HardwareWalletError, cls is its class, code its `code` property,     *)
(* statusCode its `statusCode` (0: absent), name its `name`, text the      *)
(* fixed part of its message and message the set of substrings that the    *)
(* vendor's original message contains (String.includes is membership).     *)
(* A classifier is handed `unknown`: value says what the value is (an      *)
(* object, null, undefined, a string, a number), lacks which of message    *)
(* and error are undefined or null, mistyped which properties hold a       *)
(* value of another type than the classifier expects, error the substrings *)
(* of its `error` property, string those of String(value), and ref which   *)
(* instance it is (0: one that `new` has just made).                       *)
(***************************************************************************)
Thrown(hw, cls, code, text, message, statusCode, name) ==
  [hw |-> hw, cls |-> cls, code |-> code, text |-> text, message |-> message,
   statusCode |-> statusCode, name |-> name, value |-> "object",
   lacks |-> {"error"}, mistyped |-> {}, error |-> {},
   string |-> {"[object Object]"}, ref |-> 0]

\* the `error` argument of a listener when setState is called without one
NoError == Thrown(FALSE, "undefined", "", <<>>, {}, 0, "")

\* a fault of a vendor SDK: a plain Error with optional statusCode / code
VendorFault(code, message, statusCode, name) ==
  Thrown(FALSE, "Error", code, <<>>, message, statusCode, name)

\* new Error(text)
PlainError(text) == Thrown(FALSE, "Error", "", <<text>>, {}, 0, "Error")

HardwareWalletError(text, message, code) ==
  Thrown(TRUE, "HardwareWalletError", code, text, message, 0, "HardwareWalletError")

Vendor(vendor) == IF vendor = "ledger" THEN "Ledger" ELSE "Trezor"

DeviceNotFoundError(vendor, details) ==
  Thrown(TRUE, "DeviceNotFoundError", "DEVICE_NOT_FOUND",
         IF details = {} THEN <<Vendor(vendor), " device not found">>
                         ELSE <<Vendor(vendor), " device not found: ">>,
         details, 0, "DeviceNotFoundError")

UserRejectedError(action) ==
  Thrown(TRUE, "UserRejectedError", "USER_REJECTED",
         <<"User rejected ", action, " on device">>, {}, 0, "UserRejectedError")

TransportError(text) ==
  Thrown(TRUE, "TransportError", "TRANSPORT_ERROR", <<"Transport error: ", text>>,
         {}, 0, "TransportError")

DeviceLockedError(vendor) ==
  Thrown(TRUE, "DeviceLockedError", "DEVICE_LOCKED",
         <<Vendor(vendor), " device is locked. Please unlock it first.">>,
         {}, 0, "DeviceLockedError")

\* the constructor has ONE parameter, requiredApp; callers pass the vendor first
AppNotOpenError(requiredApp) ==
  Thrown(TRUE, "AppNotOpenError", "APP_NOT_OPEN",
         <<"Please open the ", requiredApp, " app on your Ledger device">>,
         {}, 0, "AppNotOpenError")

UnsupportedOperationError(operation) ==
  Thrown(TRUE, "UnsupportedOperationError", "UNSUPPORTED_OPERATION",
         <<"Unsupported operation: ">>, operation, 0, "UnsupportedOperationError")

\* what reading a property of null or undefined, or calling `includes` of a
\* value that is no string, throws
TypeError == Thrown(FALSE, "TypeError", "", <<"TypeError">>, {}, 0, "TypeError")

includes(message, word) == word \in message

\* `instanceof` that holds of the instances of the base class alone
instanceofHardwareWalletError_exactClass(error) ==
  error.hw /\ error.cls = "HardwareWalletError"

\* error instanceof HardwareWalletError
instanceofHardwareWalletError(error) == error.hw

\* String.toLowerCase on the substrings a message contains
lowerWord(word) ==
  CASE word = "0x6FAA" -> "0x6faa"
    [] word = "Denied" -> "denied"
    [] word = "Rejected" -> "rejected"
    [] word = "Locked" -> "locked"
    [] word = "PIN" -> "pin"
    [] word = "Not found" -> "not found"
    [] word = "No device" -> "no device"
    [] OTHER -> word

toLowerCase(message) == {lowerWord(w) : w \in message}

\* mapLedgerError with the message heuristics tried before the switch on
\* statusCode
mapLedgerError_messageFirst(error) ==
  IF instanceofHardwareWalletError(error) THEN error
  ELSE IF error.value \in {"null", "undefined"} THEN TypeError
  ELSE LET message == IF "message" \in error.lacks THEN error.string ELSE error.message
           statusCode == IF "statusCode" \in error.mistyped THEN 0 ELSE error.statusCode
           name == IF "name" \in error.mistyped THEN "" ELSE error.name
       IN IF "message" \in error.mistyped \ error.lacks THEN TypeError
          ELSE IF \/ includes(message, "0x6985")
                  \/ includes(message, "denied")
                  \/ includes(message, "rejected")
            THEN UserRejectedError("signature")
          ELSE IF \/ includes(message, "locked")
                  \/ includes(message, "pin")
                  \/ includes(toLowerCase(message), "0x6faa")
            THEN DeviceLockedError("ledger")
          ELSE IF \/ includes(message, "not found")
                  \/ includes(message, "no device")
                  \/ name = "TransportOpenUserCancelled"
            THEN DeviceNotFoundError("ledger", message)
          ELSE IF /\ includes(message, "app")
                  /\ (includes(message, "open") \/ includes(message, "launch"))
            THEN AppNotOpenError("Ethereum")
          ELSE CASE statusCode \in {27013, 27014} -> UserRejectedError("signature")
                 [] statusCode \in {27264, 27266} ->
                      HardwareWalletError(<<"Invalid data: ">>, message, "INVALID_DATA")
                 [] statusCode = 27392 ->
                      HardwareWalletError(<<"Wrong parameter: ">>, message, "WRONG_PARAMETER")
                 [] statusCode \in {27904, 28160} -> UnsupportedOperationError(message)
                 [] statusCode = 28586 -> DeviceLockedError("ledger")
                 [] OTHER -> HardwareWalletError(<<>>, message, "UNKNOWN_ERROR")

\* the value mapLedgerError completes with: the HardwareWalletError it
\* returns, or the TypeError it throws
mapLedgerError(error) ==
  IF instanceofHardwareWalletError(error) THEN error
  ELSE IF error.value \in {"null", "undefined"} THEN TypeError
  ELSE LET message == IF "message" \in error.lacks THEN error.string ELSE error.message
           statusCode == IF "statusCode" \in error.mistyped THEN 0 ELSE error.statusCode
           name == IF "name" \in error.mistyped THEN "" ELSE error.name
       IN CASE statusCode \in {27013, 27014} ->              \* 0x6985, 0x6986
                 UserRejectedError("signature")
            [] statusCode \in {27264, 27266} ->              \* 0x6a80, 0x6a82
                 HardwareWalletError(<<"Invalid data: ">>, message, "INVALID_DATA")
            [] statusCode = 27392 ->                         \* 0x6b00
                 HardwareWalletError(<<"Wrong parameter: ">>, message, "WRONG_PARAMETER")
            [] statusCode \in {27904, 28160} ->              \* 0x6d00, 0x6e00
                 UnsupportedOperationError(message)
            [] statusCode = 28586 ->                         \* 0x6faa
                 DeviceLockedError("ledger")
            [] OTHER ->
                 IF "message" \in error.mistyped \ error.lacks THEN TypeError
                 ELSE IF \/ includes(message, "0x6985")
                    \/ includes(message, "denied")
                    \/ includes(message, "rejected")
                   THEN UserRejectedError("signature")
                 ELSE IF \/ includes(message, "locked")
                         \/ includes(message, "pin")
                         \/ includes(toLowerCase(message), "0x6faa")
                   THEN DeviceLockedError("ledger")
                 ELSE IF \/ includes(message, "not found")
                         \/ includes(message, "no device")
                         \/ name = "TransportOpenUserCancelled"
                   THEN DeviceNotFoundError("ledger", message)
                 ELSE IF /\ includes(message, "app")
                         /\ (includes(message, "open") \/ includes(message, "launch"))
                   THEN AppNotOpenError("Ethereum")
                 ELSE HardwareWalletError(<<>>, message, "UNKNOWN_ERROR")

\* mapTrezorError with the message heuristics tried before the switch on code
mapTrezorError_messageFirst(error) ==
  IF instanceofHardwareWalletError(error) THEN error
  ELSE IF error.value \in {"null", "undefined"} THEN TypeError
  ELSE LET from == IF "message" \notin error.lacks THEN "message"
                   ELSE IF "error" \notin error.lacks THEN "error"
                   ELSE "string"
           message == CASE from = "message" -> error.message
                        [] from = "error" -> error.error
                        [] OTHER -> error.string
           code == IF "code" \in error.mistyped THEN "" ELSE error.code
       IN IF from \in error.mistyped THEN TypeError
          ELSE IF \/ includes(message, "cancelled")
                  \/ includes(message, "rejected")
                  \/ includes(message, "denied")
            THEN UserRejectedError("signature")
          ELSE IF includes(message, "not found") \/ includes(message, "no device")
            THEN DeviceNotFoundError("trezor", message)
          ELSE IF \/ includes(message, "pin")
                  \/ includes(message, "passphrase")
                  \/ includes(message, "locked")
            THEN DeviceLockedError("trezor")
          ELSE CASE code \in {"Failure_ActionCancelled", "Method_Cancel"} ->
                      UserRejectedError("signature")
                 [] code = "Device_CallInProgress" ->
                      HardwareWalletError(<<"Device is busy with another operation">>, {},
                                          "DEVICE_BUSY")
                 [] code \in {"Device_InvalidState", "Device_NotInitialized"} ->
                      DeviceLockedError("trezor")
                 [] code \in {"Transport_Missing", "Device_NotFound"} ->
                      DeviceNotFoundError("trezor", message)
                 [] OTHER -> HardwareWalletError(<<>>, message, "UNKNOWN_ERROR")

\* the value mapTrezorError completes with: the HardwareWalletError it
\* returns, or the TypeError it throws
mapTrezorError(error) ==
  IF instanceofHardwareWalletError(error) THEN error
  ELSE IF error.value \in {"null", "undefined"} THEN TypeError
  ELSE LET from == IF "message" \notin error.lacks THEN "message"
                   ELSE IF "error" \notin error.lacks THEN "error"
                   ELSE "string"
           message == CASE from = "message" -> error.message
                        [] from = "error" -> error.error
                        [] OTHER -> error.string
           code == IF "code" \in error.mistyped THEN "" ELSE error.code
       IN CASE code \in {"Failure_ActionCancelled", "Method_Cancel"} ->
                 UserRejectedError("signature")
            [] code = "Device_CallInProgress" ->
                 HardwareWalletError(<<"Device is busy with another operation">>, {},
                                     "DEVICE_BUSY")
            [] code \in {"Device_InvalidState", "Device_NotInitialized"} ->
                 DeviceLockedError("trezor")
            [] code \in {"Transport_Missing", "Device_NotFound"} ->
                 DeviceNotFoundError("trezor", message)
            [] OTHER ->
                 IF from \in error.mistyped THEN TypeError
                 ELSE IF \/ includes(message, "cancelled")
                    \/ includes(message, "rejected")
                    \/ includes(message, "denied")
                   THEN UserRejectedError("signature")
                 ELSE IF includes(message, "not found") \/ includes(message, "no device")
                   THEN DeviceNotFoundError("trezor", message)
                 ELSE IF \/ includes(message, "pin")
                         \/ includes(message, "passphrase")
                         \/ includes(message, "locked")
                   THEN DeviceLockedError("trezor")
                 ELSE HardwareWalletError(<<>>, message, "UNKNOWN_ERROR")

(***************************************************************************)
(* The arguments the classifiers are applied to on their own: any value a  *)
(* catch clause can hold.                                                   *)
(***************************************************************************)
\* statusCode: absent (0), the codes of the switch, and 0x9000
StatusCodes == {0, 27013, 27014, 27264, 27266, 27392, 27904, 28160, 28586, 36864}

TrezorCodes ==
  {"", "Failure_ActionCancelled", "Method_Cancel", "Device_CallInProgress",
   "Device_InvalidState", "Device_NotInitialized", "Transport_Missing",
   "Device_NotFound", "Failure_DataError"}

ErrorNames == {"Error", "TransportOpenUserCancelled"}

\* message texts, each the set of the substrings of interest it contains
Messages ==
  {{}, {"boom"}, {"denied"}, {"rejected"}, {"cancelled"}, {"locked"}, {"pin"},
   {"passphrase"}, {"not found"}, {"no device"}, {"app"}, {"app", "open"},
   {"app", "launch"}, {"0x6985"}, {"0x6FAA"}, {"Denied"}, {"Locked"},
   {"Not found"}, {"denied", "locked"}, {"locked", "not found"},
   {"no device", "app", "open"}, {"cancelled", "not found"}, {"not found", "pin"}}

\* which of message / error an object has, and which fields hold a value of
\* another type than the classifiers expect
Shapes ==
  {[lacks |-> {"error"}, mistyped |-> {}],
   [lacks |-> {}, mistyped |-> {}],
   [lacks |-> {"message"}, mistyped |-> {}],
   [lacks |-> {"message", "error"}, mistyped |-> {}],
   [lacks |-> {"error"}, mistyped |-> {"message"}],
   [lacks |-> {"message"}, mistyped |-> {"error"}],
   [lacks |-> {"error"}, mistyped |-> {"statusCode"}],
   [lacks |-> {"error"}, mistyped |-> {"code"}],
   [lacks |-> {"error"}, mistyped |-> {"name"}]}

\* an object: its text is in `message` when it has one, else in `error`; an
\* object with both has 'denied' in `error`
ObjectFault(shape, statusCode, code, name, text) ==
  [VendorFault(code, IF "message" \in shape.lacks THEN {} ELSE text, statusCode, name)
     EXCEPT !.lacks = shape.lacks,
            !.mistyped = shape.mistyped,
            !.error = IF "error" \in shape.lacks THEN {}
                      ELSE IF "message" \in shape.lacks THEN text
                      ELSE {"denied"}]

\* null, undefined, a string, a number
PrimitiveFault(value, text) ==
  [Thrown(FALSE, value, "", <<>>, {}, 0, "")
     EXCEPT !.value = value, !.lacks = {"message", "error"}, !.string = text]

HardwareWalletErrors ==
  {HardwareWalletError(<<>>, {"boom"}, "UNKNOWN_ERROR"),
   HardwareWalletError(<<"Invalid data: ">>, {"denied"}, "INVALID_DATA"),
   DeviceNotFoundError("ledger", {"no device"}),
   DeviceNotFoundError("trezor", {}),
   UserRejectedError("signature"),
   TransportError("locked"),
   DeviceLockedError("trezor"),
   AppNotOpenError("Ethereum"),
   UnsupportedOperationError({"rejected"})}

Faults ==
  {ObjectFault(shape, statusCode, code, name, text) :
     shape \in Shapes, statusCode \in StatusCodes, code \in TrezorCodes,
     name \in ErrorNames, text \in Messages}
  \cup {PrimitiveFault("null", {"null"}), PrimitiveFault("undefined", {"undefined"}),
        PrimitiveFault("number", {"27013"})}
  \cup {PrimitiveFault("string", text) : text \in Messages}
  \cup HardwareWalletErrors

Classifiers == {"mapLedgerError", "mapTrezorError"}

classify(fn, error) ==
  IF fn = "mapLedgerError" THEN mapLedgerError(error) ELSE mapTrezorError(error)

\* the instance a call completed with: one that `new` has just made is the
\* r-th instance from now on
instance(error, r) == IF error.ref = 0 THEN [error EXCEPT !.ref = r] ELSE error

NoClassification ==
  [fn |-> "none", stage |-> "none", fault |-> NoError, twin |-> NoError,
   first |-> NoError, firstOfTwin |-> NoError, second |-> NoError]

(***************************************************************************)
(* createTransport (src/ledger/transport.ts): what the failure of          *)
(* TransportWebHID.create / TransportWebUSB.create is turned into.         *)
(***************************************************************************)
createWebHIDTransportError(error) ==
  IF includes(error.message, "cannot find module")
    THEN TransportError("@ledgerhq/hw-transport-webhid is not installed.")
    ELSE error

createTransportError(error) ==
  LET err == createWebHIDTransportError(error)
  IN IF err.name = "TransportOpenUserCancelled"
       THEN DeviceNotFoundError("ledger", {"User cancelled device selection"})
     ELSE IF includes(err.message, "No device selected") \/ includes(err.message, "no device")
       THEN DeviceNotFoundError("ledger", {})
     ELSE err

(***************************************************************************)
(* getTrezorConnect (src/trezor/connect.ts): what the failure of the       *)
(* dynamic import or of TrezorConnect.init is turned into.                 *)
(***************************************************************************)
getTrezorConnectError(error) ==
  IF includes(error.message, "cannot find module")
    THEN TransportError("@trezor/connect is not installed.")
    ELSE mapTrezorError(error)


(***************************************************************************)
(* The signature functions, normalizeV to toViemSignature.  A hex string   *)
(* is the number it denotes and whether it has the full width of a word    *)
(* (all the digits of 32 bytes) or fewer digits; a string with its top bit *)
(* set has the full width.  The group order is scaled with the word: odd,  *)
(* a little below 2^WordBits, so that some words exceed it.                *)
(***************************************************************************)
MaxWord == 2^WordBits - 1

Words == 0..MaxWord

Hexes ==
  {h \in [value : Words, full : BOOLEAN] : h.value >= 2^(WordBits - 1) => h.full}

\* BigInt(hex)
BigInt(hex) == hex.value

\* what a call completes with: the value returned, or nothing when it threw
Returned(hex) == [ok |-> TRUE, hex |-> hex]

ThrewOutOfRange == [ok |-> FALSE, hex |-> [value |-> 0, full |-> TRUE]]

\* ox Hex.fromNumber(value, { size: 32 }): the padded string, or
\* IntegerOutOfRangeError for a negative value or one that does not fit
Hex_fromNumber(value) ==
  IF value \in Words THEN Returned([value |-> value, full |-> TRUE])
                     ELSE ThrewOutOfRange

\* the BigInt operator %: the remainder has the sign of the dividend
remainder(a, b) == IF a >= 0 THEN a % b ELSE 0 - ((0 - a) % b)

normalizeV(v) ==
  IF v = 0 \/ v = 1 THEN v + 27
  ELSE IF v = 27 \/ v = 28 THEN v
  ELSE IF v >= 35 THEN v
  ELSE remainder(v, 2) + 27

parseSignatureBytes(r, s, v) == [r |-> r, s |-> s, v |-> normalizeV(v)]

\* ox Signature.toHex(Signature.from({ r, s, yParity })): r and s padded to
\* 32 bytes each, then the byte 27 + yParity
Signature_toHex(r, s, yParity) ==
  [r |-> [value |-> r, full |-> TRUE],
   s |-> [value |-> s, full |-> TRUE],
   v |-> 27 + yParity]

serializeSignature(components) ==
  LET yParity == IF components.v = 28 \/ remainder(components.v, 2) = 0 THEN 1 ELSE 0
  IN Signature_toHex(BigInt(components.r), BigInt(components.s), yParity)

curveOrder == 2^WordBits - 3

halfOrder == curveOrder \div 2

\* normalizeS with s compared against the order instead of half the order
normalizeS_againstOrder(s) ==
  IF BigInt(s) > curveOrder
    THEN Hex_fromNumber(curveOrder - BigInt(s))
    ELSE Returned(s)

normalizeS(s) ==
  IF BigInt(s) > halfOrder
    THEN Hex_fromNumber(curveOrder - BigInt(s))
    ELSE Returned(s)

NoSignature ==
  [r |-> [value |-> 0, full |-> FALSE], s |-> [value |-> 0, full |-> FALSE], v |-> 0]

\* toViemSignature without normalizeS
toViemSignature_raw(components) ==
  [ok |-> TRUE, signature |-> serializeSignature(components)]

\* the serialized signature returned, or nothing when normalizeS threw
toViemSignature(components) ==
  LET normalizedS == normalizeS(components.s)
  IN IF normalizedS.ok
       THEN [ok |-> TRUE,
             signature |-> serializeSignature([r |-> components.r,
                                               s |-> normalizedS.hex,
                                               v |-> components.v])]
       ELSE [ok |-> FALSE, signature |-> NoSignature]

(***************************************************************************)
(* The signing operations of the accounts (createLedgerAccount,            *)
(* createTrezorAccount): the vendor resolves with r, s and v, and the      *)
(* operation resolves with toViemSignature of the parsed components or     *)
(* rejects with the classified fault.                                      *)
(***************************************************************************)
Vendors == {"ledger", "trezor"}

SigningOperations == {"signMessage", "signTransaction", "signTypedData"}

\* what Hex.fromNumber throws
IntegerOutOfRangeError ==
  VendorFault("", {"is not in safe unsigned integer range"}, 0,
              "Hex.IntegerOutOfRangeError")

\* try { ...; return toViemSignature(parseSignatureBytes(r, s, v)) }
\* catch (error) { throw mapLedgerError(error) }   (Trezor: mapTrezorError)
sign(vendor, r, s, v) ==
  LET components == parseSignatureBytes(r, s, v)
      serialized == toViemSignature(components)
  IN IF serialized.ok
       THEN [outcome |-> "resolved", signature |-> serialized.signature,
             error |-> NoError]
       ELSE [outcome |-> "rejected", signature |-> NoSignature,
             error |-> IF vendor = "ledger"
                         THEN mapLedgerError(IntegerOutOfRangeError)
                         ELSE mapTrezorError(IntegerOutOfRangeError)]

NoSigning ==
  [fn |-> "none", stage |-> "none", vendor |-> "none",
   r |-> [value |-> 0, full |-> FALSE], s |-> [value |-> 0, full |-> FALSE],
   v |-> 0, normalizedV |-> 0,
   normalizedS |-> ThrewOutOfRange, normalizedAgain |-> ThrewOutOfRange,
   signed |-> [outcome |-> "none", signature |-> NoSignature, error |-> NoError]]


(***************************************************************************)
(* The path functions (parsePath, buildPath, pathToLedgerFormat).          *)
(***************************************************************************)
InvalidPathError(reason) ==
  Thrown(TRUE, "InvalidPathError", "INVALID_PATH",
         <<"Invalid derivation path: ", reason>>, {}, 0, "InvalidPathError")

\* what a path function completes with: the value returned, or the error
\* thrown
ReturnedPath(value) == [ok |-> TRUE, value |-> value, error |-> NoError]

ThrewInvalidPath(reason) ==
  [ok |-> FALSE, value |-> <<>>, error |-> InvalidPathError(reason)]

\* parts.map(part => ({ index, hardened }))
parsePart(part) ==
  LET hardened == endsWith(part, "'")
  IN [index |-> parseDigits(IF hardened THEN dropLast(part) ELSE part),
      hardened |-> hardened]

parsePath(path) ==
  IF ~isValidPath(path) THEN ThrewInvalidPath("Invalid path format")
  ELSE LET parts == split(sliceFrom(path, 2))
       IN ReturnedPath([i \in 1..Len(parts) |-> parsePart(parts[i])])

\* String(n) of a non-negative integer
RECURSIVE digitsOf(_)
digitsOf(n) ==
  IF n < 10 THEN <<DigitChars[n + 1]>>
  ELSE digitsOf(n \div 10) \o <<DigitChars[(n % 10) + 1]>>

\* a number given as index: value + 1/2 when half is set, else value
\* `${index}`
indexText(index) ==
  (IF index.value < 0 THEN <<"-">> \o digitsOf(0 - index.value)
                      ELSE digitsOf(index.value))
  \o (IF index.half THEN <<".", "5">> ELSE <<>>)

\* buildPath without the test of the resulting path
buildPath_unvalidated(basePath, index) ==
  IF ~startsWith(basePath, <<"m", "/">>)
    THEN ThrewInvalidPath("Base path must start with m/")
  ELSE IF index.value < 0 \/ index.half
    THEN ThrewInvalidPath("Index must be a non-negative integer")
  ELSE ReturnedPath(basePath \o <<"/">> \o indexText(index))

buildPath(basePath, index) ==
  IF ~startsWith(basePath, <<"m", "/">>)
    THEN ThrewInvalidPath("Base path must start with m/")
  ELSE IF index.value < 0 \/ index.half
    THEN ThrewInvalidPath("Index must be a non-negative integer")
  ELSE LET fullPath == basePath \o <<"/">> \o indexText(index)
       IN IF ~isValidPath(fullPath)
            THEN ThrewInvalidPath("Resulting path is invalid")
            ELSE ReturnedPath(fullPath)

\* 0x80000000, scaled with the width of an index
HARDENED_OFFSET == 2^IndexBits

\* pathToLedgerFormat that adds the offset to the unhardened indices
pathToLedgerFormat_swapped(path) ==
  LET components == parsePath(path)
  IN IF ~components.ok THEN components
     ELSE ReturnedPath([i \in 1..Len(components.value) |->
                          IF components.value[i].hardened
                            THEN components.value[i].index
                            ELSE components.value[i].index + HARDENED_OFFSET])

pathToLedgerFormat(path) ==
  LET components == parsePath(path)
  IN IF ~components.ok THEN components
     ELSE ReturnedPath([i \in 1..Len(components.value) |->
                          IF components.value[i].hardened
                            THEN components.value[i].index + HARDENED_OFFSET
                            ELSE components.value[i].index])

\* the texts given as paths: a beginning, then up to MaxSegments segments
\* joined by '/'
Beginnings == {<<"m", "/">>, <<"m">>, <<"M", "/">>, <<"/">>, <<>>}

SegmentTexts ==
  {<<>>, <<"0">>, <<"5">>, <<"4", "4", "'">>, <<"0", "0", "7">>,
   digitsOf(MAX_INDEX), digitsOf(MAX_INDEX) \o <<"'">>,
   digitsOf(MAX_INDEX + 1), digitsOf(MAX_INDEX + 1) \o <<"'">>,
   digitsOf(MAX_INDEX) \o <<"0">>,
   <<"-", "1">>, <<"a">>, <<"1", "'", "'">>, <<"'">>, <<"1", "x">>}

RECURSIVE join(_)
join(segments) ==
  IF Len(segments) = 0 THEN <<>>
  ELSE IF Len(segments) = 1 THEN segments[1]
  ELSE segments[1] \o <<"/">> \o join(Tail(segments))

SegmentLists ==
  UNION {[1..n -> SegmentTexts] : n \in 0..MaxSegments}

PathTexts ==
  {beginning \o join(segments) : beginning \in Beginnings, segments \in SegmentLists}

\* the numbers given as index: integers around the limits, and 2.5
IndexInputs ==
  {[value |-> v, half |-> FALSE] : v \in {0 - 1, 0, 5, MAX_INDEX, MAX_INDEX + 1}}
  \cup {[value |-> 2, half |-> TRUE]}

NoDerivation ==
  [fn |-> "none", stage |-> "none", path |-> <<>>,
   index |-> [value |-> 0, half |-> FALSE], valid |-> FALSE,
   result |-> ThrewInvalidPath(""), base |-> ThrewInvalidPath(""),
   again |-> ThrewInvalidPath("")]

\* getLedgerLivePath(index), index an integer
getLedgerLivePath(index) ==
  IF index < 0 THEN ThrewInvalidPath("Index must be non-negative")
  ELSE ReturnedPath(<<"m", "/", "4", "4", "'", "/", "6", "0", "'", "/">>
                    \o digitsOf(index) \o <<"'", "/", "0", "/", "0">>)

NoDiscovery ==
  [fn |-> "none", stage |-> "none", count |-> 0, startIndex |-> 0,
   basePath |-> <<>>, derivationStyle |-> "bip44", i |-> 0, accounts |-> <<>>,
   asked |-> <<>>, answers |-> <<>>, cause |-> "none", returned |-> <<>>,
   error |-> NoError]

(***************************************************************************)
(* The transaction encoder: serializeTransactionForLedger, toRlpHex and    *)
(* rlpEncode.  A string is the sequence of its characters; a byte string   *)
(* is what a hex string "0x.." stands for, two characters a byte.          *)
(***************************************************************************)
HexChars ==
  <<"0", "1", "2", "3", "4", "5", "6", "7", "8", "9",
    "a", "b", "c", "d", "e", "f">>

HexPrefix == <<"0", "x">>

\* n.toString(16), n a non-negative integer
RECURSIVE toString16(_)
toString16(n) ==
  IF n < 16 THEN <<HexChars[n + 1]>>
  ELSE toString16(n \div 16) \o <<HexChars[(n % 16) + 1]>>

\* x.toString(16) of a number x that is an integer or an integer and a half,
\* given as twice its value: 2.5 is written "2.8"
halvesToString16(twice) ==
  IF twice % 2 = 0 THEN toString16(twice \div 2)
  ELSE toString16(twice \div 2) \o <<".", "8">>

\* str.padStart(targetLength, "0")
padStart(str, targetLength) ==
  IF Len(str) >= targetLength THEN str
  ELSE [i \in 1..(targetLength - Len(str)) |-> "0"] \o str

\* parseInt(hex, 16) of hexadecimal digits
RECURSIVE parseInt16(_)
parseInt16(hex) ==
  IF Len(hex) = 0 THEN 0
  ELSE 16 * parseInt16(dropLast(hex))
       + (CHOOSE d \in 0..15 : HexChars[d + 1] = hex[Len(hex)])

\* str.replace(/^0+/, "")
RECURSIVE withoutLeadingZeros(_)
withoutLeadingZeros(str) ==
  IF Len(str) > 0 /\ str[1] = "0" THEN withoutLeadingZeros(sliceFrom(str, 1))
  ELSE str

\* parts.join("")
RECURSIVE joinAll(_)
joinAll(parts) ==
  IF Len(parts) = 0 THEN <<>> ELSE parts[1] \o joinAll(sliceFrom(parts, 1))

\* the values rlpEncode is given: a string, an array, anything else
stringValue(chars) == [type |-> "string", chars |-> chars, items |-> <<>>]
arrayValue(items) == [type |-> "array", chars |-> <<>>, items |-> items]
otherValue == [type |-> "other", chars |-> <<>>, items |-> <<>>]

\* toRlpHex(value), value a non-negative number or bigint; Hex.fromNumber
\* of a non-negative bigint with no size is "0x" and its hexadecimal digits
toRlpHex_zeroByte(value) ==
  LET hex == HexPrefix \o toString16(value)
      withoutPrefix == sliceFrom(hex, 2)
      stripped == withoutLeadingZeros(withoutPrefix)
      trimmed == IF stripped = <<>> THEN <<"0">> ELSE stripped
  IN HexPrefix \o (IF Len(trimmed) % 2 = 1 THEN <<"0">> ELSE <<>>) \o trimmed

toRlpHex(value) ==
  IF value = 0 THEN HexPrefix
  ELSE LET hex == HexPrefix \o toString16(value)
           withoutPrefix == sliceFrom(hex, 2)
           stripped == withoutLeadingZeros(withoutPrefix)
           trimmed == IF stripped = <<>> THEN <<"0">> ELSE stripped
       IN HexPrefix \o (IF Len(trimmed) % 2 = 1 THEN <<"0">> ELSE <<>>)
          \o trimmed

\* rlpEncode(input).  hex.length / 2 need not be an integer, and lenBytes of
\* the string branch is lenHex.length / 2 + (lenHex.length % 2), which is
\* not one for an odd lenHex.length: lengths are kept as twice their value.
RECURSIVE rlpEncode(_)
rlpEncode(input) ==
  IF input.type = "string" /\ startsWith(input.chars, HexPrefix) THEN
    LET hex == sliceFrom(input.chars, 2)
        len2 == Len(hex)
        lenHex == halvesToString16(len2)
        lenBytes2 == Len(lenHex) + 2 * (Len(lenHex) % 2)
    IN IF Len(hex) = 0 THEN <<"0", "x", "8", "0">>
       ELSE IF Len(hex) = 2 /\ parseInt16(hex) < 128 THEN input.chars
       ELSE IF len2 <= 2 * 55
         THEN HexPrefix \o halvesToString16(2 * 128 + len2) \o hex
       ELSE HexPrefix \o halvesToString16(2 * 183 + lenBytes2)
            \o padStart(lenHex, lenBytes2) \o hex
  ELSE IF input.type = "array" THEN
    LET encoded == [i \in 1..Len(input.items) |-> rlpEncode(input.items[i])]
        concatenated ==
          joinAll([i \in 1..Len(encoded) |-> sliceFrom(encoded[i], 2)])
        len2 == Len(concatenated)
        lenHex == halvesToString16(len2)
        lenBytes == (Len(lenHex) + 1) \div 2
    IN IF len2 <= 2 * 55
         THEN HexPrefix \o halvesToString16(2 * 192 + len2) \o concatenated
       ELSE HexPrefix \o toString16(247 + lenBytes)
            \o padStart(lenHex, lenBytes * 2) \o concatenated
  ELSE <<"0", "x", "8", "0">>

\* a field of a transaction: given, or undefined
given(value) == [defined |-> TRUE, value |-> value]
undefinedNumber == [defined |-> FALSE, value |-> 0]
undefinedHex == [defined |-> FALSE, value |-> <<>>]

\* field ?? otherwise
nullish(field, otherwise) == IF field.defined THEN field.value ELSE otherwise

serializeTransactionForLedger(tx) ==
  LET chain == nullish(tx.chainId, 1)
      isEIP1559 == tx.maxFeePerGas.defined
  IN IF isEIP1559 THEN
       LET fields ==
             <<stringValue(toRlpHex(chain)),
               stringValue(toRlpHex(nullish(tx.nonce, 0))),
               stringValue(toRlpHex(nullish(tx.maxPriorityFeePerGas, 0))),
               stringValue(toRlpHex(nullish(tx.maxFeePerGas, 0))),
               stringValue(toRlpHex(nullish(tx.gas, 21000))),
               stringValue(nullish(tx.to, HexPrefix)),
               stringValue(toRlpHex(nullish(tx.value, 0))),
               stringValue(nullish(tx.data, HexPrefix)),
               arrayValue(<<>>)>>
           encoded == rlpEncode(arrayValue(fields))
       IN <<"0", "x", "0", "2">> \o sliceFrom(encoded, 2)
     ELSE
       LET fields ==
             <<stringValue(toRlpHex(nullish(tx.nonce, 0))),
               stringValue(toRlpHex(nullish(tx.gasPrice, 0))),
               stringValue(toRlpHex(nullish(tx.gas, 21000))),
               stringValue(nullish(tx.to, HexPrefix)),
               stringValue(toRlpHex(nullish(tx.value, 0))),
               stringValue(nullish(tx.data, HexPrefix)),
               stringValue(toRlpHex(chain)),
               stringValue(HexPrefix),
               stringValue(HexPrefix)>>
       IN rlpEncode(arrayValue(fields))

\* the hex string of a byte string, without "0x"
hexOf(bytes) ==
  [i \in 1..(2 * Len(bytes)) |->
     IF i % 2 = 1 THEN HexChars[(bytes[(i + 1) \div 2] \div 16) + 1]
     ELSE HexChars[(bytes[i \div 2] % 16) + 1]]

\* a byte string of one byte repeated
repeated(byte, length) == [i \in 1..length |-> byte]

NoTransaction ==
  [to |-> undefinedHex, value |-> undefinedNumber, nonce |-> undefinedNumber,
   data |-> undefinedHex, gas |-> undefinedNumber,
   gasPrice |-> undefinedNumber, maxFeePerGas |-> undefinedNumber,
   maxPriorityFeePerGas |-> undefinedNumber, chainId |-> undefinedNumber]

NoEncoding ==
  [fn |-> "none", stage |-> "none", bytes |-> <<>>, value |-> 0,
   tx |-> NoTransaction, output |-> <<>>]


(***************************************************************************)
(* The device managers.                                                    *)
(***************************************************************************)
VARIABLES
  kind,                   \* which factory built the manager: ledger, trezor, mock
  options,                \* the mock's options: initialState, failConnect, failVerify
  state,                  \* let state: ConnectionState
  listeners,              \* const listeners = new Set(): in insertion order
  transport,              \* Ledger: let transport (0: null, else the handle)
  ethApp,                 \* Ledger: let ethApp (0: null, else its transport's handle)
  deviceFeatures,         \* Trezor: let deviceFeatures
  trezorConnectInstance,  \* connect.ts: whether the module variable is non-null
  isInitialized,          \* connect.ts: let isInitialized
  broker,                 \* vendor side: the TrezorConnect module is fresh, live or disposed
  opened,                 \* vendor side: number of transports handed out so far
  released,               \* vendor side: handles on which close() has been called
  pending,                \* the call in flight: the await it is suspended at, the
                          \* setState calls it has made with what each listener was
                          \* told, and its invocations of vendor capabilities
  last,                   \* history: the call that settled last
  opening,                \* history: the manager's first two calls, followed while
                          \* they are a connect() from 'disconnected' that resolves
                          \* and then a disconnect(), with the same listeners
                          \* registered throughout: what each listener was told
  subs,                   \* history: the unsubscribe functions handed out
  classification,         \* a call of mapLedgerError or mapTrezorError on its own:
                          \* the argument, what it completed with, and what a
                          \* second call on the value returned completed with
  signing,                \* a call of normalizeV, of normalizeS or of a signing
                          \* operation of an account on its own: the arguments or
                          \* the vendor's r, s, v, and what the call completed with
  derivation,             \* a call of parsePath, buildPath or pathToLedgerFormat on
                          \* its own: the arguments and what the call completed with
  discovery,              \* a call of discoverLedgerAccounts or
                          \* discoverTrezorAccounts: its options, the derivations
                          \* asked of the vendor so far, and what it settled with
  encoding                \* a call of the transaction encoder on its own: the
                          \* value or transaction and the bytes produced

vars ==
  <<kind, options, state, listeners, transport, ethApp, deviceFeatures,
    trezorConnectInstance, isInitialized, broker, opened, released, pending,
    last, opening, subs, classification, signing, derivation, discovery,
    encoding>>

Kinds == {"ledger", "trezor", "mock"}

ConnectionStates == {"disconnected", "connecting", "connected", "error"}

\* failConnect?: boolean | Error
FailConnectOptions == {"false", "true", "Error"}

\* failVerify?: boolean | 'rejected' | 'locked' | 'app-not-open' | Error
FailVerifyOptions == {"false", "true", "rejected", "locked", "app-not-open", "Error"}

DefaultOptions ==
  [initialState |-> "disconnected", failConnect |-> "false", failVerify |-> "false"]

\* the paths verifyAddress is called with: the default and a malformed one
PathInputs == {DEFAULT_BASE_PATH, <<"m", "/">>}

\* what a vendor SDK of the Ledger family may fail with
LedgerFaults ==
  { VendorFault("", {"Ledger device: Locked device", "Locked"}, 28586, "TransportStatusError"),
    VendorFault("", {"boom"}, 0, "Error") }

\* what TransportWebHID.create may fail with
CreateFaults == LedgerFaults \cup {VendorFault("", {}, 0, "TransportOpenUserCancelled")}

\* what the dynamic import of @trezor/connect may fail with
ImportFaults == {VendorFault("", {"cannot find module"}, 0, "Error")}

\* what TrezorConnect may fail with (a rejection, or the payload of success: false)
TrezorFaults ==
  { VendorFault("Failure_ActionCancelled", {"Cancelled"}, 0, ""),
    VendorFault("", {"boom"}, 0, "Error") }

NoFeatures == [present |-> FALSE, model |-> "", supportsEIP712 |-> FALSE]

\* payload of a successful TrezorConnect.getFeatures()
FeaturesPayload == [model |-> "T", major_version |-> 2]

NoConfig ==
  [name |-> "", version |-> "", flags |-> 0, supportsEIP712 |-> FALSE,
   blindSigningEnabled |-> FALSE]

\* what ethApp.getAppConfiguration() may resolve to
AppConfigurations ==
  { [version |-> "1.10.0", arbitraryDataEnabled |-> TRUE],
    [version |-> "", arbitraryDataEnabled |-> FALSE] }

NoAddress == [base |-> "", index |-> 0]

\* the address a device derives
DeviceAddress == [base |-> "0xdevice", index |-> 0]

(***************************************************************************)
(* What a call settles with.                                               *)
(***************************************************************************)
Void ==
  [tag |-> "void", error |-> NoError, connected |-> FALSE, model |-> "",
   address |-> NoAddress, verified |-> FALSE, config |-> NoConfig]

ErrorValue(error) == [Void EXCEPT !.tag = "error", !.error = error]

InfoValue(connected, model) ==
  [Void EXCEPT !.tag = "info", !.connected = connected, !.model = model]

ConfigValue(config) == [Void EXCEPT !.tag = "config", !.config = config]

AddressValue(address) ==
  [Void EXCEPT !.tag = "address", !.address = address, !.verified = TRUE]

FeaturesValue(features) == [Void EXCEPT !.tag = "features", !.model = features.model]

NoCall ==
  [op |-> "none", path |-> <<>>, pc |-> "", cont |-> "", stateAtCall |-> "",
   handleAtCall |-> 0, transitions |-> <<>>, vendorCalls |-> <<>>]

\* `last` before any call has settled
NoneSettled ==
  [op |-> "none", path |-> <<>>, stateAtCall |-> "", handleAtCall |-> 0,
   transitions |-> <<>>, vendorCalls |-> <<>>, outcome |-> "", value |-> Void,
   stateAtSettle |-> "", handleAtSettle |-> 0]

(***************************************************************************)
(* The manager as one record, so that a piece of code is a function from   *)
(* the manager before it to the manager after it.                          *)
(***************************************************************************)
Manager ==
  [kind |-> kind, options |-> options, state |-> state, listeners |-> listeners,
   transport |-> transport, ethApp |-> ethApp, deviceFeatures |-> deviceFeatures,
   trezorConnectInstance |-> trezorConnectInstance, isInitialized |-> isInitialized,
   broker |-> broker, opened |-> opened, released |-> released, pending |-> pending,
   last |-> last]

\* what the listeners were told during a call, in order
RECURSIVE told(_)
told(trs) ==
  IF trs = <<>> THEN <<>>
  ELSE [i \in 1..Len(trs[1].delivered) |->
          [listener |-> trs[1].delivered[i].listener, state |-> trs[1].delivered[i].state]]
       \o told(Tail(trs))

Unfollowed == [stage |-> "off", audience |-> <<>>, heard |-> <<>>]

\* `opening` after a piece of code that took the manager from the call in
\* flight `before` (NoCall: the piece began a call) to the manager m
follow(o, before, m) ==
  LET began == before.op = "none"
      ended == m.pending.op = "none"
      call == IF ended THEN m.last ELSE m.pending
      entered ==
        IF ~began THEN o
        ELSE IF o.stage = "fresh" /\ call.op = "connect"
                /\ call.stateAtCall = "disconnected"
          THEN [stage |-> "connect", audience |-> m.listeners, heard |-> <<>>]
        ELSE IF o.stage = "connected" /\ call.op = "disconnect"
          THEN [o EXCEPT !.stage = "disconnect"]
        ELSE Unfollowed
  IN IF ~ended \/ entered.stage = "off" THEN entered
     ELSE IF entered.stage = "connect" /\ m.last.outcome = "resolved"
       THEN [entered EXCEPT !.stage = "connected", !.heard = told(m.last.transitions)]
     ELSE IF entered.stage = "disconnect"
       THEN [entered EXCEPT !.stage = "done", !.heard = @ \o told(m.last.transitions)]
     ELSE Unfollowed

Becomes(m) ==
  /\ state' = m.state
  /\ transport' = m.transport
  /\ ethApp' = m.ethApp
  /\ deviceFeatures' = m.deviceFeatures
  /\ trezorConnectInstance' = m.trezorConnectInstance
  /\ isInitialized' = m.isInitialized
  /\ broker' = m.broker
  /\ opened' = m.opened
  /\ released' = m.released
  /\ pending' = m.pending
  /\ last' = m.last
  /\ opening' = follow(opening, pending, m)
  /\ UNCHANGED <<kind, options, listeners, subs, classification, signing,
                 derivation, discovery, encoding>>

\* setState with the two statements exchanged: listeners.forEach, then the
\* assignment
setState_notifyFirst(m, newState, error) ==
  LET delivered ==
        [i \in 1..Len(m.listeners) |->
           [listener |-> m.listeners[i], state |-> newState, error |-> error,
            seen |-> m.state]]
  IN [m EXCEPT !.state = newState,
               !.pending.transitions =
                 Append(@, [from |-> m.state, to |-> newState, error |-> error,
                            registered |-> m.listeners, delivered |-> delivered])]

\* setState, of all three managers: the assignment, then listeners.forEach
setState(m, newState, error) ==
  LET assigned == [m EXCEPT !.state = newState]
      delivered ==
        [i \in 1..Len(m.listeners) |->
           [listener |-> m.listeners[i], state |-> newState, error |-> error,
            seen |-> assigned.state]]
  IN [assigned EXCEPT !.pending.transitions =
        Append(@, [from |-> m.state, to |-> newState, error |-> error,
                   registered |-> m.listeners, delivered |-> delivered])]

\* the entry of a public operation
begin(m, op, path) ==
  [m EXCEPT !.pending =
     [op |-> op, path |-> path, pc |-> "", cont |-> "", stateAtCall |-> m.state,
      handleAtCall |-> m.transport, transitions |-> <<>>, vendorCalls |-> <<>>]]

\* the promise of the public operation resolves or rejects
settle(m, outcome, value) ==
  LET settled ==
        [op |-> m.pending.op, path |-> m.pending.path,
         stateAtCall |-> m.pending.stateAtCall, handleAtCall |-> m.pending.handleAtCall,
         transitions |-> m.pending.transitions, vendorCalls |-> m.pending.vendorCalls,
         outcome |-> outcome, value |-> value, stateAtSettle |-> m.state,
         handleAtSettle |-> m.transport]
  IN [m EXCEPT !.pending = NoCall, !.last = settled]

\* the call suspends at `await capability(...)`
await(m, capability, cont, handle, display) ==
  [m EXCEPT
     !.pending.pc = capability,
     !.pending.cont = cont,
     !.pending.vendorCalls = Append(@,
       [capability |-> capability, handle |-> handle, display |-> display,
        released |-> handle \in m.released, broker |-> m.broker,
        outcome |-> "pending"])]

\* the awaited capability has resolved ("ok") or rejected ("fail")
answered(m, outcome) ==
  [m EXCEPT !.pending.vendorCalls[Len(m.pending.vendorCalls)].outcome = outcome]


(***************************************************************************)
(* createLedgerDeviceManager (src/ledger/device.ts)                        *)
(***************************************************************************)
Ledger_isConnected(m) == m.state = "connected" /\ m.transport # 0

\* verifyAddress deriving with ethApp.getAddress(path, false)
Ledger_verifyAddress_body_noDisplay(m) ==
  IF m.ethApp = 0
    THEN settle(m, "rejected", ErrorValue(AppNotOpenError("ledger")))
  ELSE IF ~isValidPath(m.pending.path)
    THEN settle(m, "rejected", ErrorValue(PlainError("Invalid derivation path")))
  ELSE await(m, "getAddress", "verifyAddress", m.ethApp, FALSE)

\* verifyAddress from its second `if (!ethApp)` on
Ledger_verifyAddress_body(m) ==
  IF m.ethApp = 0
    THEN settle(m, "rejected", ErrorValue(AppNotOpenError("ledger")))
  ELSE IF ~isValidPath(m.pending.path)
    THEN settle(m, "rejected", ErrorValue(PlainError("Invalid derivation path")))
  ELSE await(m, "getAddress", "verifyAddress", m.ethApp, TRUE)

\* connect() has settled: the operation that awaited it goes on
Ledger_connect_done(m, outcome, error) ==
  IF m.pending.op = "connect"
    THEN settle(m, outcome, IF outcome = "resolved" THEN Void ELSE ErrorValue(error))
  ELSE IF outcome = "rejected"
    THEN settle(m, "rejected", ErrorValue(error))
  ELSE Ledger_verifyAddress_body(m)

\* a catch block of connect() that rethrows without setState('error', error)
Ledger_connect_catch_rethrow(m, error) ==
  Ledger_connect_done([m EXCEPT !.transport = 0, !.ethApp = 0], "rejected",
                      mapLedgerError(error))

\* a catch block of connect() without `transport = null; ethApp = null`
Ledger_connect_catch_uncleared(m, error) ==
  Ledger_connect_done(setState(m, "error", error), "rejected",
                      mapLedgerError(error))

\* the catch block of connect()
Ledger_connect_catch(m, error) ==
  LET cleared == [m EXCEPT !.transport = 0, !.ethApp = 0]
  IN Ledger_connect_done(setState(cleared, "error", error), "rejected",
                         mapLedgerError(error))

\* connect() without `if (state === 'connected' && transport) return`
Ledger_connect_always(m) ==
  await(setState(m, "connecting", NoError), "createTransport", "connect", 0, FALSE)

Ledger_connect(m) ==
  IF m.state = "connected" /\ m.transport # 0
    THEN Ledger_connect_done(m, "resolved", NoError)
    ELSE await(setState(m, "connecting", NoError), "createTransport", "connect", 0, FALSE)

\* the vendor hands out a transport it has not handed out before
newTransport(m) == m.opened + 1

\* transport = await createTransport(transportOptions), then await loadEthApp()
Ledger_connect_createTransport(m, outcome, error) ==
  IF outcome = "ok"
    THEN await([m EXCEPT !.transport = newTransport(m), !.opened = newTransport(m)],
               "loadEthApp", "connect", 0, FALSE)
    ELSE Ledger_connect_catch(m, createTransportError(error))

\* ethApp = new EthApp(transport), then await ethApp.getAppConfiguration?.()
Ledger_connect_loadEthApp(m, outcome) ==
  IF outcome = "ok"
    THEN await([m EXCEPT !.ethApp = m.transport], "getAppConfiguration", "connect",
               m.transport, FALSE)
    ELSE Ledger_connect_catch(m, PlainError("Ledger SDK not installed"))

Ledger_connect_getAppConfiguration(m, outcome, error) ==
  IF outcome = "ok"
    THEN Ledger_connect_done(setState(m, "connected", NoError), "resolved", NoError)
    ELSE Ledger_connect_catch(m, error)

\* disconnect() ending with `state = 'disconnected'` in place of setState
Ledger_disconnect_finish_silent(m) ==
  settle([m EXCEPT !.transport = 0, !.ethApp = 0, !.state = "disconnected"],
         "resolved", Void)

\* disconnect() after the try/catch around transport.close()
Ledger_disconnect_finish(m) ==
  settle(setState([m EXCEPT !.transport = 0, !.ethApp = 0], "disconnected", NoError),
         "resolved", Void)

\* disconnect() without the try/catch around transport.close()
Ledger_disconnect_close_rethrow(m, outcome) ==
  IF outcome = "fail"
    THEN settle(m, "rejected", ErrorValue(PlainError("close failed")))
    ELSE Ledger_disconnect_finish(m)

\* transport.close() has settled: `catch { /* Ignore close errors */ }`
Ledger_disconnect_close(m, outcome) == Ledger_disconnect_finish(m)

Ledger_disconnect(m) ==
  IF m.transport # 0
    THEN [await(m, "close", "disconnect", m.transport, FALSE)
            EXCEPT !.released = @ \cup {m.transport}]
    ELSE Ledger_disconnect_finish(m)

Ledger_getDeviceInfo(m) ==
  IF m.transport = 0
    THEN settle(m, "resolved", InfoValue(FALSE, ""))
    ELSE settle(m, "resolved", InfoValue(TRUE, "deviceModel"))

\* getAppConfig() without `if (!ethApp) throw new AppNotOpenError(...)`
Ledger_getAppConfig_unguarded(m) ==
  await(m, "getAppConfiguration", "getAppConfig", m.ethApp, FALSE)

Ledger_getAppConfig(m) ==
  IF m.ethApp = 0
    THEN settle(m, "rejected", ErrorValue(AppNotOpenError("ledger")))
    ELSE await(m, "getAppConfiguration", "getAppConfig", m.ethApp, FALSE)

Ledger_getAppConfig_reply(m, outcome, config, error) ==
  IF outcome = "ok"
    THEN settle(m, "resolved", ConfigValue(
           [name |-> "Ethereum",
            version |-> IF config.version = "" THEN "unknown" ELSE config.version,
            flags |-> IF config.arbitraryDataEnabled THEN 1 ELSE 0,
            supportsEIP712 |-> TRUE,
            blindSigningEnabled |-> config.arbitraryDataEnabled]))
    ELSE settle(m, "rejected", ErrorValue(mapLedgerError(error)))

Ledger_verifyAddress(m) ==
  IF m.ethApp = 0 THEN Ledger_connect(m) ELSE Ledger_verifyAddress_body(m)

Ledger_verifyAddress_reply(m, outcome, address, error) ==
  IF outcome = "ok"
    THEN settle(m, "resolved", AddressValue(address))
    ELSE settle(m, "rejected", ErrorValue(mapLedgerError(error)))


(***************************************************************************)
(* createTrezorDeviceManager (src/trezor/device.ts) and the connect-broker *)
(* singleton it shares (src/trezor/connect.ts).  `cont` names the place    *)
(* that awaits getTrezorConnect / loadTrezorConnect.                       *)
(***************************************************************************)
Trezor_isConnected(m) == m.state = "connected"

\* a synchronous call of a vendor capability
invoke(m, capability, outcome) ==
  [m EXCEPT !.pending.vendorCalls = Append(@,
     [capability |-> capability, handle |-> 0, display |-> FALSE, released |-> FALSE,
      broker |-> m.broker, outcome |-> outcome])]

\* disconnect() after its try/catch
Trezor_disconnect_finish(m) ==
  settle(setState([m EXCEPT !.deviceFeatures = NoFeatures], "disconnected", NoError),
         "resolved", Void)

\* getTrezorConnect / loadTrezorConnect has resolved to the instance
Trezor_loaded(m, cont, disposeThrows) ==
  CASE cont = "connect" ->
         \* const TrezorConnect = await loadTrezorConnect()
         IF m.trezorConnectInstance /\ m.isInitialized
           THEN await(m, "getFeatures", "connect", 0, FALSE)
           ELSE await(m, "import", "connect.load", 0, FALSE)
    [] cont = "connect.load" -> await(m, "getFeatures", "connect", 0, FALSE)
    [] cont = "disconnect" ->
         IF disposeThrows
           THEN Trezor_disconnect_finish(invoke(m, "dispose", "throw"))
           ELSE Trezor_disconnect_finish(
                  [invoke(m, "dispose", "ok") EXCEPT !.broker = "disposed"])
    [] cont = "getDeviceInfo" -> await(m, "getFeatures", "getDeviceInfo", 0, FALSE)
    [] OTHER -> await(m, "ethereumGetAddress", "verifyAddress", 0, TRUE)

getTrezorConnect(m, cont, disposeThrows) ==
  IF m.trezorConnectInstance /\ m.isInitialized
    THEN Trezor_loaded(m, cont, disposeThrows)
    ELSE await(m, "import", cont, 0, FALSE)

\* verifyAddress after its `if (state !== "connected") await connect()`
Trezor_verifyAddress_body(m) ==
  IF ~isValidPath(m.pending.path)
    THEN settle(m, "rejected", ErrorValue(PlainError("Invalid derivation path")))
    ELSE getTrezorConnect(m, "verifyAddress", FALSE)

\* getFeatures after its `if (!deviceFeatures) await connect()`
Trezor_getFeatures_body(m) ==
  IF ~m.deviceFeatures.present
    THEN settle(m, "rejected", ErrorValue(AppNotOpenError("trezor")))
    ELSE settle(m, "resolved", FeaturesValue(m.deviceFeatures))

\* connect() has settled: the operation that awaited it goes on
Trezor_connect_done(m, outcome, error) ==
  IF m.pending.op = "connect"
    THEN settle(m, outcome, IF outcome = "resolved" THEN Void ELSE ErrorValue(error))
  ELSE IF outcome = "rejected"
    THEN settle(m, "rejected", ErrorValue(error))
  ELSE IF m.pending.op = "verifyAddress"
    THEN Trezor_verifyAddress_body(m)
  ELSE Trezor_getFeatures_body(m)

\* the catch block of connect()
Trezor_connect_catch(m, error) ==
  Trezor_connect_done(setState([m EXCEPT !.deviceFeatures = NoFeatures], "error", error),
                      "rejected", mapTrezorError(error))

\* getTrezorConnect / loadTrezorConnect has thrown
Trezor_loadFailed(m, cont, error) ==
  CASE cont \in {"connect", "connect.load"} -> Trezor_connect_catch(m, error)
    [] cont = "disconnect" -> Trezor_disconnect_finish(m)
    [] cont = "getDeviceInfo" ->
         settle(m, "resolved", InfoValue(Trezor_isConnected(m), ""))
    [] OTHER -> settle(m, "rejected", ErrorValue(mapTrezorError(error)))

\* getTrezorConnect: the dynamic import has settled, TrezorConnect.init is next
getTrezorConnect_import(m, outcome, error) ==
  IF outcome = "ok"
    THEN await(m, "init", m.pending.cont, 0, FALSE)
    ELSE Trezor_loadFailed(m, m.pending.cont, getTrezorConnectError(error))

\* getTrezorConnect: TrezorConnect.init has settled
getTrezorConnect_init(m, outcome, error, disposeThrows) ==
  IF outcome = "ok"
    THEN Trezor_loaded([m EXCEPT !.trezorConnectInstance = TRUE,
                                 !.isInitialized = TRUE, !.broker = "live"],
                       m.pending.cont, disposeThrows)
    ELSE Trezor_loadFailed(m, m.pending.cont, getTrezorConnectError(error))

\* connect() without `if (state === "connected") return`
Trezor_connect_always(m) ==
  getTrezorConnect(setState(m, "connecting", NoError), "connect", FALSE)

Trezor_connect(m) ==
  IF m.state = "connected"
    THEN Trezor_connect_done(m, "resolved", NoError)
    ELSE getTrezorConnect(setState(m, "connecting", NoError), "connect", FALSE)

\* connect(): TrezorConnect.getFeatures() has settled; a result with
\* success: false throws its payload, which the catch handles like a rejection
Trezor_connect_getFeatures(m, outcome, features, error) ==
  IF outcome = "ok"
    THEN Trezor_connect_done(
           setState([m EXCEPT !.deviceFeatures =
                       [present |-> TRUE, model |-> features.model,
                        supportsEIP712 |-> features.major_version >= 2]],
                    "connected", NoError),
           "resolved", NoError)
    ELSE Trezor_connect_catch(m, error)

Trezor_disconnect(m, disposeThrows) == getTrezorConnect(m, "disconnect", disposeThrows)

Trezor_getDeviceInfo(m) ==
  IF m.state # "connected"
    THEN settle(m, "resolved", InfoValue(FALSE, ""))
    ELSE getTrezorConnect(m, "getDeviceInfo", FALSE)

Trezor_getDeviceInfo_getFeatures(m, outcome, features) ==
  IF outcome = "ok"
    THEN settle(m, "resolved", InfoValue(TRUE, features.model))
    ELSE settle(m, "resolved", InfoValue(Trezor_isConnected(m), ""))

Trezor_getFeatures(m) ==
  IF ~m.deviceFeatures.present THEN Trezor_connect(m) ELSE Trezor_getFeatures_body(m)

Trezor_verifyAddress(m) ==
  IF m.state # "connected" THEN Trezor_connect(m) ELSE Trezor_verifyAddress_body(m)

Trezor_verifyAddress_reply(m, outcome, address, error) ==
  IF outcome = "ok"
    THEN settle(m, "resolved", AddressValue(address))
    ELSE settle(m, "rejected", ErrorValue(mapTrezorError(error)))


(***************************************************************************)
(* createMockLedgerDeviceManager (src/ledger/mock/device.ts).  None of its *)
(* operations awaits a vendor: each runs to its settlement in one piece.   *)
(* mockDeviceInfo.connected, which setState also assigns, is overwritten   *)
(* by getDeviceInfo and never read.                                        *)
(***************************************************************************)
\* the longest prefix of s made of digits
RECURSIVE leadingDigits(_)
leadingDigits(s) ==
  IF Len(s) = 0 \/ ~IsDigit(s[1]) THEN <<>>
  ELSE <<s[1]>> \o leadingDigits(sliceFrom(s, 1))

\* with the default options: addresses = {}, defaultAddressIndex = 0
Mock_getAddressForPath(path) ==
  LET pathParts == split(path)
      lastPart == pathParts[Len(pathParts)]
      index == IF lastPart # <<>> /\ leadingDigits(lastPart) # <<>>
                    /\ parseDigits(leadingDigits(lastPart)) # 0
                 THEN parseDigits(leadingDigits(lastPart))
                 ELSE 0
  IN [base |-> "0xdead0000", index |-> index]

Mock_verifyAddress_body(m) ==
  CASE m.options.failVerify = "false" ->
         settle(m, "resolved", AddressValue(Mock_getAddressForPath(m.pending.path)))
    [] m.options.failVerify = "rejected" ->
         settle(m, "rejected", ErrorValue(UserRejectedError("address")))
    [] m.options.failVerify = "locked" ->
         settle(m, "rejected", ErrorValue(DeviceLockedError("ledger")))
    [] m.options.failVerify = "app-not-open" ->
         settle(m, "rejected", ErrorValue(AppNotOpenError("ledger")))
    [] m.options.failVerify = "Error" ->
         settle(m, "rejected", ErrorValue(PlainError("the Error given as failVerify")))
    [] OTHER ->
         settle(m, "rejected", ErrorValue(PlainError("Verification failed")))

Mock_connect_done(m, outcome, error) ==
  IF m.pending.op = "connect"
    THEN settle(m, outcome, IF outcome = "resolved" THEN Void ELSE ErrorValue(error))
  ELSE IF outcome = "rejected"
    THEN settle(m, "rejected", ErrorValue(error))
  ELSE Mock_verifyAddress_body(m)

Mock_connect(m) ==
  IF m.state = "connected"
    THEN Mock_connect_done(m, "resolved", NoError)
  ELSE LET connecting == setState(m, "connecting", NoError)
           error == IF m.options.failConnect = "Error"
                      THEN PlainError("the Error given as failConnect")
                      ELSE PlainError("Connection failed")
       IN IF m.options.failConnect # "false"
            THEN Mock_connect_done(setState(connecting, "error", error), "rejected", error)
            ELSE Mock_connect_done(setState(connecting, "connected", NoError),
                                   "resolved", NoError)

Mock_disconnect(m) == settle(setState(m, "disconnected", NoError), "resolved", Void)

Mock_getDeviceInfo(m) == settle(m, "resolved", InfoValue(m.state = "connected", "nanoX"))

Mock_getAppConfig(m) ==
  IF m.state # "connected"
    THEN settle(m, "rejected", ErrorValue(AppNotOpenError("ledger")))
    ELSE settle(m, "resolved", ConfigValue(
           [name |-> "Ethereum", version |-> "1.10.0", flags |-> 1,
            supportsEIP712 |-> TRUE, blindSigningEnabled |-> TRUE]))

Mock_verifyAddress(m) ==
  IF m.state # "connected" THEN Mock_connect(m) ELSE Mock_verifyAddress_body(m)

(***************************************************************************)
(* onStateChange and the unsubscribe function it returns, the same in all  *)
(* three managers.                                                         *)
(***************************************************************************)
\* Set.add: a value that is in the set already keeps its place
setAdd(set, value) == IF value \in Range(set) THEN set ELSE Append(set, value)

\* Set.delete
setDelete(set, value) == SelectSeq(set, LAMBDA x : x # value)


(***************************************************************************)
(* The state after construction.                                           *)
(***************************************************************************)
\* the manager as its factory returns it
Constructed ==
  /\ state = options.initialState
  /\ listeners = <<>>
  /\ transport = 0
  /\ ethApp = 0
  /\ deviceFeatures = NoFeatures
  /\ trezorConnectInstance = FALSE
  /\ isInitialized = FALSE
  /\ broker = "fresh"
  /\ opened = 0
  /\ released = {}
  /\ pending = NoCall
  /\ last = NoneSettled
  /\ opening = [stage |-> "fresh", audience |-> <<>>, heard |-> <<>>]
  /\ subs = <<>>

Init ==
  /\ kind \in Kinds
  /\ options \in IF kind = "mock"
                   THEN [initialState : ConnectionStates,
                         failConnect : FailConnectOptions,
                         failVerify : FailVerifyOptions]
                   ELSE {DefaultOptions}
  /\ Constructed
  /\ classification = NoClassification
  /\ signing = NoSigning
  /\ derivation = NoDerivation
  /\ discovery = NoDiscovery
  /\ encoding = NoEncoding

(***************************************************************************)
(* The caller starts a public operation (single-flight).                   *)
(***************************************************************************)
Idle == pending.op = "none"

Suspended(capability, cont) ==
  pending.op # "none" /\ pending.pc = capability /\ pending.cont = cont

Connect ==
  /\ Idle
  /\ opened < MaxOpened
  /\ LET m == begin(Manager, "connect", <<>>)
     IN Becomes(CASE kind = "ledger" -> Ledger_connect(m)
                  [] kind = "trezor" -> Trezor_connect(m)
                  [] OTHER -> Mock_connect(m))

Disconnect ==
  /\ Idle
  /\ LET m == begin(Manager, "disconnect", <<>>)
     IN \E disposeThrows \in BOOLEAN :
          Becomes(CASE kind = "ledger" -> Ledger_disconnect(m)
                    [] kind = "trezor" -> Trezor_disconnect(m, disposeThrows)
                    [] OTHER -> Mock_disconnect(m))

GetDeviceInfo ==
  /\ Idle
  /\ LET m == begin(Manager, "getDeviceInfo", <<>>)
     IN Becomes(CASE kind = "ledger" -> Ledger_getDeviceInfo(m)
                  [] kind = "trezor" -> Trezor_getDeviceInfo(m)
                  [] OTHER -> Mock_getDeviceInfo(m))

\* LedgerDeviceManager only
GetAppConfig ==
  /\ Idle
  /\ kind \in {"ledger", "mock"}
  /\ LET m == begin(Manager, "getAppConfig", <<>>)
     IN Becomes(IF kind = "ledger" THEN Ledger_getAppConfig(m) ELSE Mock_getAppConfig(m))

\* TrezorDeviceManager only
GetFeatures ==
  /\ Idle
  /\ kind = "trezor"
  /\ Becomes(Trezor_getFeatures(begin(Manager, "getFeatures", <<>>)))

VerifyAddress ==
  /\ Idle
  /\ opened < MaxOpened
  /\ \E path \in PathInputs :
       LET m == begin(Manager, "verifyAddress", path)
       IN Becomes(CASE kind = "ledger" -> Ledger_verifyAddress(m)
                    [] kind = "trezor" -> Trezor_verifyAddress(m)
                    [] OTHER -> Mock_verifyAddress(m))

OnStateChange ==
  /\ Len(subs) < MaxSubs
  /\ \E listener \in ListenerIds :
       /\ listeners' = setAdd(listeners, listener)
       /\ subs' = Append(subs, [listener |-> listener, called |-> FALSE])
  /\ opening' = IF opening.stage = "fresh" THEN opening ELSE Unfollowed
  /\ UNCHANGED <<kind, options, state, transport, ethApp, deviceFeatures,
                 trezorConnectInstance, isInitialized, broker, opened, released,
                 pending, last, classification, signing, derivation, discovery,
                 encoding>>

\* a call of the function onStateChange returned
Unsubscribe ==
  /\ \E t \in 1..Len(subs) :
       /\ listeners' = setDelete(listeners, subs[t].listener)
       /\ subs' = [subs EXCEPT ![t].called = TRUE]
  /\ opening' = IF opening.stage = "fresh" THEN opening ELSE Unfollowed
  /\ UNCHANGED <<kind, options, state, transport, ethApp, deviceFeatures,
                 trezorConnectInstance, isInitialized, broker, opened, released,
                 pending, last, classification, signing, derivation, discovery,
                 encoding>>

(***************************************************************************)
(* A vendor capability the call in flight awaits resolves or rejects.      *)
(***************************************************************************)
CreateTransportSettles ==
  /\ Suspended("createTransport", "connect")
  /\ \/ Becomes(Ledger_connect_createTransport(answered(Manager, "ok"), "ok", NoError))
     \/ \E error \in CreateFaults :
          Becomes(Ledger_connect_createTransport(answered(Manager, "fail"), "fail", error))

LoadEthAppSettles ==
  /\ Suspended("loadEthApp", "connect")
  /\ \/ Becomes(Ledger_connect_loadEthApp(answered(Manager, "ok"), "ok"))
     \/ Becomes(Ledger_connect_loadEthApp(answered(Manager, "fail"), "fail"))

ConnectProbeSettles ==
  /\ Suspended("getAppConfiguration", "connect")
  /\ \/ Becomes(Ledger_connect_getAppConfiguration(answered(Manager, "ok"), "ok", NoError))
     \/ \E error \in LedgerFaults :
          Becomes(Ledger_connect_getAppConfiguration(answered(Manager, "fail"), "fail", error))

CloseSettles ==
  /\ Suspended("close", "disconnect")
  /\ \/ Becomes(Ledger_disconnect_close(answered(Manager, "ok"), "ok"))
     \/ Becomes(Ledger_disconnect_close(answered(Manager, "fail"), "fail"))

GetAppConfigurationSettles ==
  /\ Suspended("getAppConfiguration", "getAppConfig")
  /\ \/ \E config \in AppConfigurations :
          Becomes(Ledger_getAppConfig_reply(answered(Manager, "ok"), "ok", config, NoError))
     \/ \E error \in LedgerFaults :
          Becomes(Ledger_getAppConfig_reply(answered(Manager, "fail"), "fail",
                                            CHOOSE c \in AppConfigurations : TRUE, error))

GetAddressSettles ==
  /\ Suspended("getAddress", "verifyAddress")
  /\ \/ Becomes(Ledger_verifyAddress_reply(answered(Manager, "ok"), "ok",
                                           DeviceAddress, NoError))
     \/ \E error \in LedgerFaults :
          Becomes(Ledger_verifyAddress_reply(answered(Manager, "fail"), "fail",
                                             NoAddress, error))

ImportSettles ==
  /\ pending.op # "none" /\ pending.pc = "import"
  /\ \/ Becomes(getTrezorConnect_import(answered(Manager, "ok"), "ok", NoError))
     \/ \E error \in ImportFaults :
          Becomes(getTrezorConnect_import(answered(Manager, "fail"), "fail", error))

InitSettles ==
  /\ pending.op # "none" /\ pending.pc = "init"
  /\ \/ \E disposeThrows \in BOOLEAN :
          Becomes(getTrezorConnect_init(answered(Manager, "ok"), "ok", NoError,
                                        disposeThrows))
     \/ \E error \in TrezorFaults :
          Becomes(getTrezorConnect_init(answered(Manager, "fail"), "fail", error, FALSE))

GetFeaturesSettles ==
  /\ pending.op # "none" /\ pending.pc = "getFeatures"
  /\ \/ /\ pending.cont = "connect"
        /\ \/ Becomes(Trezor_connect_getFeatures(answered(Manager, "ok"), "ok",
                                                 FeaturesPayload, NoError))
           \/ \E error \in TrezorFaults :
                Becomes(Trezor_connect_getFeatures(answered(Manager, "fail"), "fail",
                                                   FeaturesPayload, error))
     \/ /\ pending.cont = "getDeviceInfo"
        /\ \/ Becomes(Trezor_getDeviceInfo_getFeatures(answered(Manager, "ok"), "ok",
                                                       FeaturesPayload))
           \/ Becomes(Trezor_getDeviceInfo_getFeatures(answered(Manager, "fail"), "fail",
                                                       FeaturesPayload))

EthereumGetAddressSettles ==
  /\ Suspended("ethereumGetAddress", "verifyAddress")
  /\ \/ Becomes(Trezor_verifyAddress_reply(answered(Manager, "ok"), "ok",
                                           DeviceAddress, NoError))
     \/ \E error \in TrezorFaults :
          Becomes(Trezor_verifyAddress_reply(answered(Manager, "fail"), "fail",
                                             NoAddress, error))

Next ==
  \/ Connect
  \/ Disconnect
  \/ GetDeviceInfo
  \/ GetAppConfig
  \/ GetFeatures
  \/ VerifyAddress
  \/ OnStateChange
  \/ Unsubscribe
  \/ CreateTransportSettles
  \/ LoadEthAppSettles
  \/ ConnectProbeSettles
  \/ CloseSettles
  \/ GetAppConfigurationSettles
  \/ GetAddressSettles
  \/ ImportSettles
  \/ InitSettles
  \/ GetFeaturesSettles
  \/ EthereumGetAddressSettles

Spec == Init /\ [][Next]_vars


(***************************************************************************)
(* What the claims speak of.                                               *)
(***************************************************************************)
\* the calls on record: the one that settled last and the one in flight
Settled == IF last.op = "none" THEN {} ELSE {last}

\* every setState on record, with the public operation that made it
Transitions ==
  {[op |-> last.op, tr |-> last.transitions[i]] : i \in 1..Len(last.transitions)}
  \cup {[op |-> pending.op, tr |-> pending.transitions[i]] :
          i \in 1..Len(pending.transitions)}

\* every invocation of a vendor capability on record
VendorCalls == Range(last.vendorCalls) \cup Range(pending.vendorCalls)

\* the states of the notifications in `notes` that went to listener l
RECURSIVE heardBy(_, _)
heardBy(notes, l) ==
  IF notes = <<>> THEN <<>>
  ELSE (IF notes[1].listener = l THEN <<notes[1].state>> ELSE <<>>)
       \o heardBy(Tail(notes), l)

\* the classifier of the manager's vendor; the mock throws what it was given
classified(error) ==
  CASE kind = "ledger" -> mapLedgerError(error)
    [] kind = "trezor" -> mapTrezorError(error)
    [] OTHER -> error

\* setState told every registered listener, once, in registration order
DeliveredToAll(tr) ==
  /\ Len(tr.delivered) = Len(tr.registered)
  /\ \A i \in 1..Len(tr.registered) :
       /\ tr.delivered[i].listener = tr.registered[i]
       /\ tr.delivered[i].state = tr.to
       /\ tr.delivered[i].error = tr.error


(***************************************************************************)
(* The connection state machine.                                           *)
(***************************************************************************)
\* C1: on a freshly constructed manager with listeners registered, a
\* successful connect() followed by disconnect() tells each listener exactly
\* 'connecting', 'connected', 'disconnected', in that order, and nothing else.
C1_ConnectDisconnectSequence ==
  opening.stage = "done" =>
    /\ \A l \in Range(opening.audience) :
         heardBy(opening.heard, l) = <<"connecting", "connected", "disconnected">>
    /\ \A i \in 1..Len(opening.heard) :
         opening.heard[i].listener \in Range(opening.audience)

C1_Witness ==
  /\ opening.stage = "done"
  /\ Len(opening.audience) = 1
  /\ kind = "ledger"
  /\ last.op = "disconnect"

C4_ConnectWhenConnected ==
  \A c \in Settled :
    (c.op = "connect" /\ c.stateAtCall = "connected") =>
      /\ c.outcome = "resolved"
      /\ c.vendorCalls = <<>>
      /\ c.transitions = <<>>
      /\ c.stateAtSettle = "connected"
      /\ c.handleAtSettle = c.handleAtCall

C4_Witness ==
  /\ kind = "ledger"
  /\ last.op = "connect"
  /\ last.stateAtCall = "connected"
  /\ last.handleAtCall # 0
  /\ listeners # <<>>


ConnectingOperations == {"connect", "verifyAddress", "getFeatures"}

UnsubscribeCall(t) ==
  /\ subs' = [subs EXCEPT ![t].called = TRUE]
  /\ listeners' = setDelete(listeners, subs[t].listener)
  /\ UNCHANGED <<state, pending, last>>

\* C7: a call of an unsubscribe function leaves its listener unregistered
\* and the other listeners registered in their order; a repeated call of the
\* same unsubscribe function changes nothing.
C7_UnsubscribeOnce ==
  [][\A t \in 1..Len(subs) :
       UnsubscribeCall(t) =>
         /\ subs[t].listener \notin Range(listeners')
         /\ \A l \in Range(listeners) \ {subs[t].listener} : l \in Range(listeners')
         /\ subs[t].called => listeners' = listeners]_vars


\* the invocations of the vendor's address capability a call has made
AddressCalls(c) ==
  {i \in 1..Len(c.vendorCalls) :
     c.vendorCalls[i].capability \in {"getAddress", "ethereumGetAddress"}}

\* the connect() a call has run failed
ConnectFailed(c) == \E i \in 1..Len(c.transitions) : c.transitions[i].to = "error"

\* verifyAddress in a state other than 'connected' runs connect() first, and
\* derives no address unless that connect() succeeded; if it failed the call
\* rejects with the connect fault and the state is 'error'
AutoConnects(c) ==
  /\ c.stateAtCall = "connected" => c.transitions = <<>>
  /\ c.stateAtCall # "connected" =>
       /\ c.transitions # <<>>
       /\ c.transitions[1].to = "connecting"
  /\ ConnectFailed(c) =>
       /\ c.outcome = "rejected"
       /\ c.value.error = classified(c.transitions[Len(c.transitions)].error)
       /\ c.stateAtSettle = "error"
       /\ AddressCalls(c) = {}

\* verifyAddress of a connected manager invokes the vendor's address
\* capability, once and with the on-device display enabled, resolves to
\* {address, verified: true} when it answers and rejects with a classified
\* HardwareWalletError when it fails; the state stays 'connected'
DerivesOnDevice(c) ==
  /\ c.stateAtSettle = "connected"
  /\ c.outcome = "resolved" =>
       c.value = AddressValue(c.value.address) /\ c.value.verified
  /\ kind \in {"ledger", "trezor"} =>
       /\ AddressCalls(c) = {Len(c.vendorCalls)}
       /\ LET v == c.vendorCalls[Len(c.vendorCalls)]
          IN /\ v.display
             /\ kind = "ledger" => v.handle = c.handleAtSettle /\ v.handle # 0
             /\ v.outcome = "ok" => c.outcome = "resolved"
             /\ v.outcome = "fail" => c.outcome = "rejected" /\ c.value.error.hw
  /\ (kind = "mock" /\ options.failVerify = "false") => c.outcome = "resolved"

C10_ReleasedHandleNeverUsed ==
  /\ \A v \in VendorCalls :
       /\ ~v.released
       /\ v.capability \in {"getFeatures", "ethereumGetAddress"} => v.broker = "live"
  /\ \A c \in Settled : c.op = "disconnect" => c.handleAtSettle = 0
  /\ (pending.op = "none" /\ transport # 0) => transport \notin released

\* the Ledger half of C10 alone
C10_ClosedTransportNeverUsed ==
  /\ \A v \in VendorCalls : ~v.released
  /\ \A c \in Settled : c.op = "disconnect" => c.handleAtSettle = 0
  /\ (pending.op = "none" /\ transport # 0) => transport \notin released



(***************************************************************************)
(* The classifiers on their own: mapLedgerError / mapTrezorError applied   *)
(* to a value, and applied again to the value the first call returned.     *)
(* Next to the argument stands its twin: another instance with the same    *)
(* fields.                                                                  *)
(***************************************************************************)
manager ==
  <<kind, options, state, listeners, transport, ethApp, deviceFeatures,
    trezorConnectInstance, isInitialized, broker, opened, released, pending,
    last, opening, subs>>

ClassifierInit ==
  /\ kind = "ledger"
  /\ options = DefaultOptions
  /\ Constructed
  /\ classification \in
       {[NoClassification EXCEPT !.fn = fn, !.stage = "given",
                                 !.fault = instance(fault, 1),
                                 !.twin = instance(fault, 2)] :
          fn \in Classifiers, fault \in Faults}
  /\ signing = NoSigning
  /\ derivation = NoDerivation
  /\ discovery = NoDiscovery
  /\ encoding = NoEncoding

\* const e = mapXError(fault)
MapError ==
  /\ classification.stage = "given"
  /\ classification' =
       [classification EXCEPT
          !.stage = "mapped",
          !.first = instance(classify(classification.fn, classification.fault), 3),
          !.firstOfTwin = instance(classify(classification.fn, classification.twin), 4)]
  /\ UNCHANGED <<manager, signing, derivation, discovery, encoding>>

\* mapXError(e), when the first call returned e
MapErrorAgain ==
  /\ classification.stage = "mapped"
  /\ classification.first.hw
  /\ classification' =
       [classification EXCEPT
          !.stage = "mappedAgain",
          !.second = instance(classify(classification.fn, classification.first), 5)]
  /\ UNCHANGED <<manager, signing, derivation, discovery, encoding>>

ClassifierNext == MapError \/ MapErrorAgain

ClassifierSpec == ClassifierInit /\ [][ClassifierNext]_vars

\* the classifier has completed on the argument
Mapped == classification.stage \in {"mapped", "mappedAgain"}

\* C11: mapLedgerError and mapTrezorError are deterministic and idempotent:
\* two inputs with equal fields get the same class and code, an input that is
\* a HardwareWalletError is returned as the very same instance, and
\* classifying the value a classifier returned returns that instance.
C11_ClassifiersIdempotent ==
  LET c == classification
  IN /\ Mapped =>
          /\ c.first.cls = c.firstOfTwin.cls
          /\ c.first.code = c.firstOfTwin.code
          /\ c.fault.hw => c.first = c.fault
     /\ c.stage = "mappedAgain" => c.second = c.first

C11_Witness ==
  LET c == classification
  IN /\ c.stage = "mappedAgain"
     /\ ~c.fault.hw
     /\ c.fault.statusCode = 27013
     /\ c.first.cls = "UserRejectedError"
     /\ c.first.ref = 3
     /\ c.second.ref = 3
     /\ c.firstOfTwin.ref = 4

\* an object whose statusCode is a number: the code it carries (0: none)
statusCodeOf(error) ==
  IF error.value = "object" /\ ~error.hw /\ "statusCode" \notin error.mistyped
    THEN error.statusCode ELSE 0

C13_AppNotOpen ==
  LET c == classification
  IN (Mapped /\ c.fn = "mapLedgerError" /\ statusCodeOf(c.fault) = 27904) =>
       c.first.cls = "AppNotOpenError"

\* an object that is no HardwareWalletError and whose message is a string
hasMessage(error) ==
  /\ error.value = "object"
  /\ ~error.hw
  /\ "message" \notin error.lacks \cup error.mistyped

\* the completion is the catch-all error carrying the given message
IsUnknownError(e, message) ==
  /\ e.cls = "HardwareWalletError"
  /\ e.code = "UNKNOWN_ERROR"
  /\ e.text = <<>>
  /\ e.message = message

\* C14: a Ledger fault with no statusCode of the table is classified by
\* case-insensitive substring match on its message or name, in this order:
\* 'denied' or 'rejected' gives UserRejectedError; 'locked' or 'pin'
\* DeviceLockedError; 'not found', 'no device' or the name
\* TransportOpenUserCancelled DeviceNotFoundError; 'app' with 'open' or
\* 'launch' AppNotOpenError; a fault matching none of these the error of code
\* UNKNOWN_ERROR with the original message.
C14_LedgerMessageHeuristics ==
  LET c == classification
      m == toLowerCase(c.fault.message)
      name == IF "name" \in c.fault.mistyped THEN "" ELSE c.fault.name
  IN (/\ Mapped
      /\ c.fn = "mapLedgerError"
      /\ hasMessage(c.fault)
      /\ statusCodeOf(c.fault) \notin {27013, 27014, 27264, 27266, 27392, 27904, 28160, 28586}) =>
       IF includes(m, "denied") \/ includes(m, "rejected")
         THEN c.first.cls = "UserRejectedError"
       ELSE IF includes(m, "locked") \/ includes(m, "pin")
         THEN c.first.cls = "DeviceLockedError"
       ELSE IF \/ includes(m, "not found")
               \/ includes(m, "no device")
               \/ name = "TransportOpenUserCancelled"
         THEN c.first.cls = "DeviceNotFoundError"
       ELSE IF includes(m, "app") /\ (includes(m, "open") \/ includes(m, "launch"))
         THEN c.first.cls = "AppNotOpenError"
       ELSE IsUnknownError(c.first, c.fault.message)

\* an object whose code is a string: the code it carries ("": none)
codeOf(error) ==
  IF error.value = "object" /\ ~error.hw /\ "code" \notin error.mistyped
    THEN error.code ELSE ""

\* C15: for a fault that is no HardwareWalletError, mapTrezorError decides by
\* the string code when it is in the table (Failure_ActionCancelled,
\* Method_Cancel: UserRejectedError; Device_CallInProgress: the 'Device is
\* busy' error of the base class; Device_InvalidState, Device_NotInitialized:
\* DeviceLockedError; Transport_Missing, Device_NotFound:
\* DeviceNotFoundError); only otherwise by the message: cancelled / rejected /
\* denied, then not found / no device, then pin / passphrase / locked; and
\* else it returns the error of code UNKNOWN_ERROR with the original message.
C15_TrezorCodeThenMessage ==
  LET c == classification
      code == codeOf(c.fault)
      m == c.fault.message
  IN (Mapped /\ c.fn = "mapTrezorError" /\ c.fault.value = "object" /\ ~c.fault.hw) =>
       /\ code \in {"Failure_ActionCancelled", "Method_Cancel"} =>
            c.first.cls = "UserRejectedError"
       /\ code = "Device_CallInProgress" =>
            /\ c.first.cls = "HardwareWalletError"
            /\ c.first.code = "DEVICE_BUSY"
            /\ c.first.text = <<"Device is busy with another operation">>
       /\ code \in {"Device_InvalidState", "Device_NotInitialized"} =>
            c.first.cls = "DeviceLockedError"
       /\ code \in {"Transport_Missing", "Device_NotFound"} =>
            c.first.cls = "DeviceNotFoundError"
       /\ (hasMessage(c.fault) /\ code \in {"", "Failure_DataError"}) =>
            IF includes(m, "cancelled") \/ includes(m, "rejected") \/ includes(m, "denied")
              THEN c.first.cls = "UserRejectedError"
            ELSE IF includes(m, "not found") \/ includes(m, "no device")
              THEN c.first.cls = "DeviceNotFoundError"
            ELSE IF includes(m, "pin") \/ includes(m, "passphrase") \/ includes(m, "locked")
              THEN c.first.cls = "DeviceLockedError"
            ELSE IsUnknownError(c.first, m)

C15_Witness ==
  LET c == classification
  IN /\ Mapped
     /\ c.fn = "mapTrezorError"
     /\ hasMessage(c.fault)
     /\ codeOf(c.fault) = "Device_InvalidState"
     /\ c.fault.message = {"cancelled", "not found"}
     /\ c.first.cls = "DeviceLockedError"

\* C16: mapLedgerError and mapTrezorError never throw: for every input value
\* (null, undefined, a string, a number, an object without message, an object
\* whose statusCode, code, message or name is missing or of another type)
\* they return a HardwareWalletError.
C16_ClassifiersNeverThrow == Mapped => classification.first.hw

\* C17: every error a public operation rejects with (the device managers'
\* connect, getAppConfig, getFeatures, getDeviceInfo and verifyAddress, with
\* the transport creation inside connect) is an instance of
\* HardwareWalletError, the error for an invalid derivation path and the one
\* for a transport that cannot be opened included.
C17_EveryErrorIsHardwareWalletError ==
  \A c \in Settled : c.outcome = "rejected" => c.value.error.hw

(***************************************************************************)
(* The signature functions on their own: normalizeV applied to an integer, *)
(* normalizeS applied to a hex string and again to what it returned, and a *)
(* signing operation of an account applied to what the vendor resolved     *)
(* with.                                                                    *)
(***************************************************************************)
SignatureInit ==
  /\ kind = "ledger"
  /\ options = DefaultOptions
  /\ Constructed
  /\ classification = NoClassification
  /\ derivation = NoDerivation
  /\ discovery = NoDiscovery
  /\ encoding = NoEncoding
  /\ signing \in
       {[NoSigning EXCEPT !.fn = "normalizeV", !.stage = "given", !.v = v] :
          v \in (0 - MaxV)..MaxV}
       \cup {[NoSigning EXCEPT !.fn = "normalizeS", !.stage = "given", !.s = s] :
               s \in Hexes}
       \cup {[NoSigning EXCEPT !.fn = fn, !.stage = "given", !.vendor = vendor,
                               !.r = r, !.s = s, !.v = v] :
               fn \in SigningOperations, vendor \in Vendors,
               r \in Hexes, s \in Hexes, v \in 0..MaxV}
       \cup {[NoSigning EXCEPT !.fn = "toViemSignature", !.stage = "given",
                               !.r = r, !.s = s, !.v = v] :
               r \in Hexes, s \in Hexes, v \in {0, 1, 27, 28} \cup 35..MaxV}

NormalizeV ==
  /\ signing.fn = "normalizeV"
  /\ signing.stage = "given"
  /\ signing' = [signing EXCEPT !.stage = "applied",
                                !.normalizedV = normalizeV(signing.v)]
  /\ UNCHANGED <<manager, classification, derivation, discovery, encoding>>

NormalizeS ==
  /\ signing.fn = "normalizeS"
  /\ signing.stage = "given"
  /\ signing' = [signing EXCEPT !.stage = "applied",
                                !.normalizedS = normalizeS(signing.s)]
  /\ UNCHANGED <<manager, classification, derivation, discovery, encoding>>

\* normalizeS(normalizeS(s)), when the first call returned
NormalizeSAgain ==
  /\ signing.fn = "normalizeS"
  /\ signing.stage = "applied"
  /\ signing.normalizedS.ok
  /\ signing' = [signing EXCEPT !.stage = "appliedAgain",
                                !.normalizedAgain = normalizeS(signing.normalizedS.hex)]
  /\ UNCHANGED <<manager, classification, derivation, discovery, encoding>>

\* account.signMessage / signTransaction / signTypedData settles, the vendor
\* having resolved with r, s, v
Sign ==
  /\ signing.fn \in SigningOperations
  /\ signing.stage = "given"
  /\ signing' = [signing EXCEPT !.stage = "applied",
                                !.signed = sign(signing.vendor, signing.r,
                                                signing.s, signing.v)]
  /\ UNCHANGED <<manager, classification, derivation, discovery, encoding>>

\* toViemSignature(components) on its own: it returns, or throws what
\* Hex.fromNumber threw in normalizeS
ToViemSignature ==
  /\ signing.fn = "toViemSignature"
  /\ signing.stage = "given"
  /\ LET serialized ==
           toViemSignature([r |-> signing.r, s |-> signing.s, v |-> signing.v])
     IN signing' =
          [signing EXCEPT
             !.stage = "applied",
             !.signed =
               IF serialized.ok
                 THEN [outcome |-> "resolved",
                       signature |-> serialized.signature, error |-> NoError]
                 ELSE [outcome |-> "rejected", signature |-> NoSignature,
                       error |-> IntegerOutOfRangeError]]
  /\ UNCHANGED <<manager, classification, derivation, discovery, encoding>>

SignatureNext ==
  \/ NormalizeV
  \/ NormalizeS
  \/ NormalizeSAgain
  \/ Sign
  \/ ToViemSignature

SignatureSpec == SignatureInit /\ [][SignatureNext]_vars

\* C18: for every integer v normalizeV returns v+27 when v is 0 or 1, v when
\* v is 27 or 28, v when v >= 35, and (v mod 2)+27 in every other case; so
\* its result is always 27, 28 or a value >= 35.
C18_NormalizeV ==
  LET v == signing.v
      out == signing.normalizedV
  IN (signing.fn = "normalizeV" /\ signing.stage = "applied") =>
       /\ v \in {0, 1} => out = v + 27
       /\ v \in {27, 28} => out = v
       /\ v >= 35 => out = v
       /\ (v \notin {0, 1, 27, 28} /\ v < 35) => out = (v % 2) + 27
       /\ out \in {27, 28} \/ out >= 35

\* normalizeS has completed on the argument
NormalizedS == signing.fn = "normalizeS" /\ signing.stage \in {"applied", "appliedAgain"}

\* C19 as stated: for every 32-byte s normalizeS returns n - s when s > n/2
\* and s unchanged otherwise; its output is at most n/2 and
\* normalizeS(normalizeS(s)) = normalizeS(s).
C19_NormalizeSEveryWord ==
  LET s == signing.s
      out == signing.normalizedS
  IN /\ NormalizedS =>
          /\ out.ok
          /\ BigInt(s) > halfOrder => BigInt(out.hex) = curveOrder - BigInt(s)
          /\ BigInt(s) <= halfOrder => out.hex = s
          /\ BigInt(out.hex) <= halfOrder
     /\ (NormalizedS /\ signing.stage = "appliedAgain") =>
          signing.normalizedAgain = out

\* C19, amended: as stated for every s from 0 to n; for a 32-byte s above n
\* normalizeS returns nothing: Hex.fromNumber throws on the negative n - s.
C19_NormalizeS ==
  LET s == signing.s
      out == signing.normalizedS
  IN /\ (NormalizedS /\ BigInt(s) <= curveOrder) =>
          /\ out.ok
          /\ BigInt(s) > halfOrder =>
               /\ BigInt(out.hex) = curveOrder - BigInt(s)
               /\ out.hex.full
          /\ BigInt(s) <= halfOrder => out.hex = s
          /\ BigInt(out.hex) <= halfOrder
     /\ (NormalizedS /\ BigInt(s) > curveOrder) => ~out.ok
     /\ (NormalizedS /\ signing.stage = "appliedAgain") =>
          signing.normalizedAgain = out

C19_Witness ==
  /\ NormalizedS
  /\ signing.stage = "appliedAgain"
  /\ BigInt(signing.s) > halfOrder
  /\ BigInt(signing.s) < curveOrder
  /\ BigInt(signing.normalizedS.hex) = curveOrder - BigInt(signing.s)
  /\ signing.normalizedAgain = signing.normalizedS

\* a signing operation of an account has resolved with a signature
Signed ==
  /\ signing.fn \in SigningOperations
  /\ signing.stage = "applied"
  /\ signing.signed.outcome = "resolved"

\* r at full width, then s' = normalizeS(s) at full width, s' <= n/2
LowSLayout ==
  LET sig == signing.signed.signature
      s == BigInt(signing.s)
  IN /\ sig.r.full
     /\ BigInt(sig.r) = BigInt(signing.r)
     /\ sig.s.full
     /\ BigInt(sig.s) = IF s > halfOrder THEN curveOrder - s ELSE s
     /\ BigInt(sig.s) <= halfOrder

PathInit ==
  /\ kind = "ledger"
  /\ options = DefaultOptions
  /\ Constructed
  /\ classification = NoClassification
  /\ signing = NoSigning
  /\ discovery = NoDiscovery
  /\ encoding = NoEncoding
  /\ derivation \in
       {[NoDerivation EXCEPT !.fn = fn, !.stage = "given", !.path = path] :
          fn \in {"parsePath", "pathToLedgerFormat"}, path \in PathTexts}
       \cup {[NoDerivation EXCEPT !.fn = "buildPath", !.stage = "given",
                                  !.path = path, !.index = index] :
               path \in PathTexts, index \in IndexInputs}

ParsePath ==
  /\ derivation.fn = "parsePath"
  /\ derivation.stage = "given"
  /\ derivation' = [derivation EXCEPT !.stage = "applied",
                                      !.valid = isValidPath(derivation.path),
                                      !.result = parsePath(derivation.path)]
  /\ UNCHANGED <<manager, classification, signing, discovery, encoding>>

BuildPath ==
  /\ derivation.fn = "buildPath"
  /\ derivation.stage = "given"
  /\ derivation' = [derivation EXCEPT !.stage = "applied",
                                      !.valid = isValidPath(derivation.path),
                                      !.result = buildPath(derivation.path,
                                                           derivation.index)]
  /\ UNCHANGED <<manager, classification, signing, discovery, encoding>>

\* parsePath(b) and parsePath(buildPath(b, i)), when buildPath returned
ParseBuilt ==
  /\ derivation.fn = "buildPath"
  /\ derivation.stage = "applied"
  /\ derivation.result.ok
  /\ derivation' = [derivation EXCEPT !.stage = "parsed",
                                      !.base = parsePath(derivation.path),
                                      !.again = parsePath(derivation.result.value)]
  /\ UNCHANGED <<manager, classification, signing, discovery, encoding>>

PathToLedgerFormat ==
  /\ derivation.fn = "pathToLedgerFormat"
  /\ derivation.stage = "given"
  /\ derivation' = [derivation EXCEPT !.stage = "applied",
                                      !.valid = isValidPath(derivation.path),
                                      !.base = parsePath(derivation.path),
                                      !.result = pathToLedgerFormat(derivation.path)]
  /\ UNCHANGED <<manager, classification, signing, discovery, encoding>>

PathNext == ParsePath \/ BuildPath \/ ParseBuilt \/ PathToLedgerFormat

PathSpec == PathInit /\ [][PathNext]_vars

\* the text is a non-empty run of decimal digits, optionally followed by one
\* "'", of a value from 0 to 2^31-1 (here MAX_INDEX)
WellFormedSegment(text) ==
  LET run == IF Len(text) >= 1 /\ text[Len(text)] = "'"
               THEN SubSeq(text, 1, Len(text) - 1) ELSE text
  IN /\ Len(run) >= 1
     /\ \A k \in 1..Len(run) :
          run[k] \in {"0", "1", "2", "3", "4", "5", "6", "7", "8", "9"}
     /\ \E n \in 0..MAX_INDEX : \E zeros \in 0..Len(run) :
          run = [k \in 1..zeros |-> "0"] \o digitsOf(n)

\* the text is 'm/' followed by one or more well-formed segments separated
\* by single '/'
WellFormedPath(text) ==
  /\ Len(text) >= 3
  /\ text[1] = "m"
  /\ text[2] = "/"
  /\ \A i \in 3..Len(text) : \A j \in i..Len(text) :
       (/\ i = 3 \/ text[i - 1] = "/"
        /\ j = Len(text) \/ text[j + 1] = "/"
        /\ \A k \in i..j : text[k] # "/") => WellFormedSegment(SubSeq(text, i, j))
  /\ text[3] # "/"
  /\ text[Len(text)] # "/"
  /\ \A i \in 3..(Len(text) - 1) : ~(text[i] = "/" /\ text[i + 1] = "/")

\* C21: isValidPath(text) is true exactly when text starts with 'm/', has at
\* least one segment after it and every segment is a non-empty run of digits,
\* optionally followed by one "'", of value at most 2^31-1; parsePath returns
\* on exactly the paths isValidPath accepts and throws InvalidPathError on
\* all others.
C21_ValidPaths ==
  (derivation.fn = "parsePath" /\ derivation.stage = "applied") =>
    /\ derivation.valid <=> WellFormedPath(derivation.path)
    /\ derivation.result.ok <=> derivation.valid
    /\ ~derivation.result.ok => derivation.result.error.cls = "InvalidPathError"

C21_Witness ==
  /\ derivation.fn = "parsePath"
  /\ derivation.stage = "applied"
  /\ derivation.path = <<"m", "/", "4", "4", "'", "/">> \o digitsOf(MAX_INDEX)
  /\ derivation.valid
  /\ derivation.result.ok
  /\ derivation.result.value =
       <<[index |-> 44, hardened |-> TRUE], [index |-> MAX_INDEX, hardened |-> FALSE]>>

\* C22: for every valid base path b and integer i from 0 to 2^31-1,
\* buildPath(b, i) returns b + '/' + i, a valid path whose parsePath result
\* is parsePath(b) followed by {index: i, hardened: false}; buildPath throws
\* InvalidPathError when b is malformed or i is negative, no integer or above
\* 2^31-1.
C22_BuildPath ==
  LET d == derivation
      good == /\ WellFormedPath(d.path)
              /\ ~d.index.half
              /\ d.index.value \in 0..MAX_INDEX
  IN /\ (d.fn = "buildPath" /\ d.stage \in {"applied", "parsed"}) =>
          /\ good => /\ d.result.ok
                     /\ d.result.value = d.path \o <<"/">> \o digitsOf(d.index.value)
                     /\ WellFormedPath(d.result.value)
                     /\ isValidPath(d.result.value)
          /\ ~good => /\ ~d.result.ok
                      /\ d.result.error.cls = "InvalidPathError"
     /\ (d.fn = "buildPath" /\ d.stage = "parsed") =>
          /\ d.base.ok
          /\ d.again.ok
          /\ d.again.value = Append(d.base.value,
                                    [index |-> d.index.value, hardened |-> FALSE])

C22_Witness ==
  /\ derivation.fn = "buildPath"
  /\ derivation.stage = "parsed"
  /\ derivation.path = <<"m", "/", "4", "4", "'", "/", "0">>
  /\ derivation.index = [value |-> 5, half |-> FALSE]
  /\ derivation.result.value = <<"m", "/", "4", "4", "'", "/", "0", "/", "5">>
  /\ derivation.again.value =
       <<[index |-> 44, hardened |-> TRUE], [index |-> 0, hardened |-> FALSE],
         [index |-> 5, hardened |-> FALSE]>>

\* C23: for every valid path pathToLedgerFormat returns one number per
\* segment, in segment order: index + 2^31 for a hardened segment and index
\* for an unhardened one, so every entry is in 0..2^32-1 and is at least 2^31
\* exactly when its segment is hardened; for an invalid path it throws
\* InvalidPathError.
C23_PathToLedgerFormat ==
  LET d == derivation
  IN (d.fn = "pathToLedgerFormat" /\ d.stage = "applied") =>
       /\ d.result.ok <=> WellFormedPath(d.path)
       /\ ~d.result.ok => d.result.error.cls = "InvalidPathError"
       /\ d.result.ok =>
            /\ Len(d.result.value) = Len(d.base.value)
            /\ \A k \in 1..Len(d.result.value) :
                 LET segment == d.base.value[k]
                     entry == d.result.value[k]
                 IN /\ entry = IF segment.hardened THEN segment.index + 2^IndexBits
                                                   ELSE segment.index
                    /\ entry \in 0..(2^(IndexBits + 1) - 1)
                    /\ entry >= 2^IndexBits <=> segment.hardened

C23_Witness ==
  /\ derivation.fn = "pathToLedgerFormat"
  /\ derivation.stage = "applied"
  /\ derivation.path = <<"m", "/">> \o digitsOf(MAX_INDEX) \o <<"'", "/", "5">>
  /\ derivation.result.value = <<MAX_INDEX + 2^IndexBits, 5>>

(***************************************************************************)
(* Account discovery (discoverLedgerAccounts, discoverTrezorAccounts): the *)
(* call acquires the vendor's handle, then derives one address per index,  *)
(* awaiting each before it asks for the next.  `asked` are the paths given *)
(* to the vendor's address capability so far, `answers` the addresses it   *)
(* resolved with.                                                           *)
(***************************************************************************)
DiscoveryFunctions == {"discoverLedgerAccounts", "discoverTrezorAccounts"}

DerivationStyles == {"bip44", "ledger-live"}

\* the addresses the vendor resolves with
VendorAddresses == {"0xf39F", "0x7099"}

mapDiscoveryError(d, error) ==
  IF d.fn = "discoverLedgerAccounts" THEN mapLedgerError(error)
                                     ELSE mapTrezorError(error)

\* the rejection of the promise discovery returned
discover_reject(d, cause, error) ==
  [d EXCEPT !.stage = "rejected", !.cause = cause, !.returned = <<>>,
            !.error = error]

\* the body of the loop up to its await, or the return after the loop
discover_loop(d) ==
  IF d.i < d.count
    THEN LET index == d.startIndex + d.i
             path == IF d.derivationStyle = "ledger-live"
                       THEN getLedgerLivePath(index)
                       ELSE buildPath(d.basePath, [value |-> index, half |-> FALSE])
         IN IF ~path.ok
              THEN discover_reject(d, "path", mapDiscoveryError(d, path.error))
              ELSE [d EXCEPT !.stage = "deriving",
                             !.asked = Append(d.asked, path.value)]
    ELSE [d EXCEPT !.stage = "resolved", !.returned = d.accounts]

\* a fault of the vendor's address capability that is skipped: the loop goes
\* on with the next index
discover_faulted_skip(d, fault) == discover_loop([d EXCEPT !.i = d.i + 1])

\* catch (error) { throw mapLedgerError(error) }; Trezor: the payload of
\* success: false is classified by unwrapTrezorResponse first
discover_faulted(d, fault) ==
  discover_reject(d, "vendor", mapDiscoveryError(d, mapDiscoveryError(d, fault)))

\* accounts.push({ address, path, index }), then the next turn of the loop
discover_derived(d, address) ==
  discover_loop([d EXCEPT !.accounts = Append(d.accounts,
                                              [address |-> address,
                                               path |-> d.asked[Len(d.asked)],
                                               index |-> d.startIndex + d.i]),
                          !.answers = Append(d.answers, address),
                          !.i = d.i + 1])

DiscoveryInit ==
  /\ kind = "ledger"
  /\ options = DefaultOptions
  /\ Constructed
  /\ classification = NoClassification
  /\ signing = NoSigning
  /\ derivation = NoDerivation
  /\ encoding = NoEncoding
  /\ discovery \in
       {[NoDiscovery EXCEPT !.fn = fn, !.stage = "given", !.count = count,
                            !.startIndex = startIndex, !.basePath = basePath,
                            !.derivationStyle = style] :
          fn \in DiscoveryFunctions, count \in 0..MaxCount,
          startIndex \in {0 - 1, 0, 3, MAX_INDEX},
          basePath \in {DEFAULT_BASE_PATH, <<"m", "/">>},
          style \in DerivationStyles}

\* discoverXAccounts(options) is called: it awaits createTransport and the
\* import of the Ethereum app (Ledger) or getTrezorConnect (Trezor)
Discover ==
  /\ discovery.stage = "given"
  /\ discovery' = [discovery EXCEPT !.stage = "acquiring"]
  /\ UNCHANGED <<manager, classification, signing, derivation, encoding>>

\* the handle is there, or getting it failed
AcquireSettles ==
  /\ discovery.stage = "acquiring"
  /\ \/ discovery' = discover_loop(discovery)
     \/ /\ discovery.fn = "discoverLedgerAccounts"
        /\ \E fault \in CreateFaults :
             discovery' = discover_reject(discovery, "acquire",
                                          createTransportError(fault))
     \/ /\ discovery.fn = "discoverTrezorAccounts"
        /\ \E fault \in ImportFaults \cup TrezorFaults :
             discovery' = discover_reject(discovery, "acquire",
                                          getTrezorConnectError(fault))
  /\ UNCHANGED <<manager, classification, signing, derivation, encoding>>

\* eth.getAddress / trezor.ethereumGetAddress resolves
DerivationResolves ==
  /\ discovery.stage = "deriving"
  /\ \E address \in VendorAddresses :
       discovery' = discover_derived(discovery, address)
  /\ UNCHANGED <<manager, classification, signing, derivation, encoding>>

\* eth.getAddress rejects; trezor.ethereumGetAddress rejects or resolves
\* with success: false
DerivationFaults ==
  /\ discovery.stage = "deriving"
  /\ \E fault \in IF discovery.fn = "discoverLedgerAccounts"
                    THEN LedgerFaults ELSE TrezorFaults :
       discovery' = discover_faulted(discovery, fault)
  /\ UNCHANGED <<manager, classification, signing, derivation, encoding>>

DiscoveryNext == Discover \/ AcquireSettles \/ DerivationResolves \/ DerivationFaults

DiscoverySpec == DiscoveryInit /\ [][DiscoveryNext]_vars

\* the path discovery derives for an index
DiscoveryPathOf(d, index) ==
  IF d.derivationStyle = "ledger-live"
    THEN getLedgerLivePath(index).value
    ELSE buildPath(d.basePath, [value |-> index, half |-> FALSE]).value

\* C24: discovery with count c and startIndex s asks for the addresses one
\* at a time in increasing index order and resolves to exactly c accounts,
\* the k-th with index s+k, path buildPath(basePath, s+k) (style bip44) or
\* getLedgerLivePath(s+k) (style ledger-live) and the address the vendor
\* returned for that path; if a derivation faults, discovery stops, rejects
\* with the classified fault and returns no partial list.
C24_Discovery ==
  LET d == discovery
  IN /\ Len(d.asked) \in {Len(d.answers), Len(d.answers) + 1}
     /\ d.stage = "deriving" => Len(d.asked) = Len(d.answers) + 1
     /\ d.stage = "resolved" => Len(d.asked) = Len(d.answers)
     /\ \A k \in 1..Len(d.asked) :
          d.asked[k] = DiscoveryPathOf(d, d.startIndex + k - 1)
     /\ d.stage = "resolved" =>
          /\ Len(d.returned) = d.count
          /\ Len(d.asked) = d.count
          /\ \A k \in 1..d.count :
               /\ d.returned[k].index = d.startIndex + k - 1
               /\ d.returned[k].path = DiscoveryPathOf(d, d.startIndex + k - 1)
               /\ d.returned[k].address = d.answers[k]
     /\ (d.stage = "rejected" /\ d.cause \in {"vendor", "path"}) =>
          /\ d.error.hw
          /\ d.returned = <<>>
          /\ d.cause = "vendor" => Len(d.asked) = Len(d.answers) + 1
     /\ d.stage \in {"resolved", "rejected"} => Len(d.asked) <= d.count

C24_Witness ==
  LET d == discovery
  IN /\ d.fn = "discoverLedgerAccounts"
     /\ d.stage = "resolved"
     /\ d.count = 2
     /\ d.startIndex = 3
     /\ d.derivationStyle = "ledger-live"
     /\ d.returned =
          <<[address |-> "0x7099",
             path |-> <<"m", "/", "4", "4", "'", "/", "6", "0", "'", "/", "3", "'",
                        "/", "0", "/", "0">>,
             index |-> 3],
            [address |-> "0xf39F",
             path |-> <<"m", "/", "4", "4", "'", "/", "6", "0", "'", "/", "4", "'",
                        "/", "0", "/", "0">>,
             index |-> 4]>>

(***************************************************************************)
(* The transaction encoder on its own: rlpEncode of a byte string, an      *)
(* integer field through toRlpHex and rlpEncode, and                       *)
(* serializeTransactionForLedger of a transaction.                         *)
(***************************************************************************)
ByteLengths == {0, 1, 2, 55, 56, 255, 256, 4095}

FillBytes == {0, 127, 128, 255}

ByteStrings == {repeated(byte, length) : byte \in FillBytes, length \in ByteLengths}

IntegerFields ==
  0..MaxSmallInteger \cup {65535, 65536, 16777215, 16777216, 2147483647}

Numbers(values) == {undefinedNumber} \cup {given(v) : v \in values}

HexStrings(lengths) ==
  {undefinedHex} \cup {given(HexPrefix \o hexOf(repeated(171, n))) : n \in lengths}

Transactions ==
  [to : HexStrings({20}),
   value : Numbers({0, 128}),
   nonce : Numbers({0, 1}),
   data : HexStrings({0, 1, 60, 256}),
   gas : Numbers({65536}),
   gasPrice : Numbers({200}),
   maxFeePerGas : Numbers({0, 1000}),
   maxPriorityFeePerGas : Numbers({3}),
   chainId : Numbers({1, 137})]

EncodingInit ==
  /\ kind = "ledger"
  /\ options = DefaultOptions
  /\ Constructed
  /\ classification = NoClassification
  /\ signing = NoSigning
  /\ derivation = NoDerivation
  /\ discovery = NoDiscovery
  /\ \/ \E bytes \in ByteStrings :
          encoding = [NoEncoding EXCEPT !.fn = "rlpEncode", !.stage = "called",
                                        !.bytes = bytes]
     \/ \E value \in IntegerFields :
          encoding = [NoEncoding EXCEPT !.fn = "toRlpHex", !.stage = "called",
                                        !.value = value]
     \/ \E tx \in Transactions :
          encoding = [NoEncoding EXCEPT !.fn = "serializeTransactionForLedger",
                                        !.stage = "called", !.tx = tx]

\* rlpEncode(hex), hex the hex string of a byte string
RlpEncode ==
  /\ encoding.fn = "rlpEncode"
  /\ encoding.stage = "called"
  /\ encoding' =
       [encoding EXCEPT
          !.stage = "returned",
          !.output = rlpEncode(stringValue(HexPrefix \o hexOf(encoding.bytes)))]
  /\ UNCHANGED <<manager, classification, signing, derivation, discovery>>

\* rlpEncode(toRlpHex(value)): an integer field of a transaction
EncodeInteger ==
  /\ encoding.fn = "toRlpHex"
  /\ encoding.stage = "called"
  /\ encoding' =
       [encoding EXCEPT
          !.stage = "returned",
          !.output = rlpEncode(stringValue(toRlpHex(encoding.value)))]
  /\ UNCHANGED <<manager, classification, signing, derivation, discovery>>

\* serializeTransactionForLedger(tx)
Serialize ==
  /\ encoding.fn = "serializeTransactionForLedger"
  /\ encoding.stage = "called"
  /\ encoding' =
       [encoding EXCEPT
          !.stage = "returned",
          !.output = serializeTransactionForLedger(encoding.tx)]
  /\ UNCHANGED <<manager, classification, signing, derivation, discovery>>

EncodingNext ==
  \/ RlpEncode
  \/ EncodeInteger
  \/ Serialize

EncodingSpec == EncodingInit /\ [][EncodingNext]_vars

\* the minimal big-endian byte string of a non-negative integer: no leading
\* zero byte, zero the empty string
RECURSIVE bigEndian(_)
bigEndian(n) == IF n = 0 THEN <<>> ELSE bigEndian(n \div 256) \o <<n % 256>>

\* the prefix of a payload of the given length in bytes: offset + length up
\* to 55 bytes, else offset + 55 + L and the length as L big-endian bytes
lengthPrefix(offset, length) ==
  IF length <= 55 THEN <<offset + length>>
  ELSE <<offset + 55 + Len(bigEndian(length))>> \o bigEndian(length)

\* the encoding of a byte string
byteStringEncoding(bytes) ==
  IF Len(bytes) = 1 /\ bytes[1] < 128 THEN bytes
  ELSE lengthPrefix(128, Len(bytes)) \o bytes

\* the encoding of a list, from the encodings of its members
listEncoding(members) ==
  lengthPrefix(192, Len(joinAll(members))) \o joinAll(members)

\* the bytes a hex string "0x.." of whole bytes stands for
bytesOf(chars) ==
  [i \in 1..((Len(chars) - 2) \div 2) |->
     parseInt16(SubSeq(chars, 2 * i + 1, 2 * i + 2))]

EncodedBytes(fn) == encoding.fn = fn /\ encoding.stage = "returned"

\* C25: rlpEncode of a byte string returns, in hex, the byte itself for a
\* single byte below 0x80, 0x80 + length and the bytes for up to 55 bytes
\* (0x80 alone for the empty string), and for a longer one 0xb7 + L, the
\* length as L big-endian bytes with no leading zero byte, and the bytes.
C25_ByteStrings ==
  EncodedBytes("rlpEncode") =>
    encoding.output = HexPrefix \o hexOf(byteStringEncoding(encoding.bytes))

\* the byte strings whose length takes an odd number of hexadecimal digits
\* and more than 55 bytes are the ones rlpEncode gets wrong
C25_WholeLengthOnly ==
  EncodedBytes("rlpEncode") =>
    ((encoding.output = HexPrefix \o hexOf(byteStringEncoding(encoding.bytes)))
       <=> ~(Len(encoding.bytes) > 55
               /\ Len(toString16(Len(encoding.bytes))) % 2 = 1))

\* C26: an integer field is encoded as its minimal big-endian byte string:
\* 0 as the byte 0x80, 1 to 127 as that byte, a larger integer as 0x80 + k
\* and its k significant bytes.
C26_Integers ==
  EncodedBytes("toRlpHex") =>
    LET n == encoding.value
        k == Len(bigEndian(n))
    IN /\ encoding.output =
            HexPrefix \o hexOf(IF n = 0 THEN <<128>>
                               ELSE IF n <= 127 THEN <<n>>
                               ELSE <<128 + k>> \o bigEndian(n))
       /\ n > 0 => bigEndian(n)[1] # 0

C26_Witness ==
  /\ EncodedBytes("toRlpHex")
  /\ encoding.value = 256
  /\ encoding.output = <<"0", "x", "8", "2", "0", "1", "0", "0">>

\* the fields of a transaction as serializeTransactionForLedger reads them
fieldOf(tx, name) ==
  CASE name = "chainId" -> nullish(tx.chainId, 1)
    [] name = "gas" -> nullish(tx.gas, 21000)
    [] name = "nonce" -> nullish(tx.nonce, 0)
    [] name = "gasPrice" -> nullish(tx.gasPrice, 0)
    [] name = "value" -> nullish(tx.value, 0)
    [] name = "maxFeePerGas" -> nullish(tx.maxFeePerGas, 0)
    [] name = "maxPriorityFeePerGas" -> nullish(tx.maxPriorityFeePerGas, 0)

integerEncoding(n) == byteStringEncoding(bigEndian(n))

\* the list the claim names for a transaction, as bytes
transactionEncoding(tx) ==
  LET to == byteStringEncoding(bytesOf(nullish(tx.to, HexPrefix)))
      data == byteStringEncoding(bytesOf(nullish(tx.data, HexPrefix)))
      int(name) == integerEncoding(fieldOf(tx, name))
  IN IF tx.maxFeePerGas.defined
       THEN <<2>> \o listEncoding(<<int("chainId"), int("nonce"),
                                   int("maxPriorityFeePerGas"),
                                   int("maxFeePerGas"), int("gas"), to,
                                   int("value"), data, listEncoding(<<>>)>>)
       ELSE listEncoding(<<int("nonce"), int("gasPrice"), int("gas"), to,
                           int("value"), data, int("chainId"),
                           integerEncoding(0), integerEncoding(0)>>)

\* C27: serializeTransactionForLedger returns, without maxFeePerGas, the
\* list [nonce, gasPrice, gasLimit, to, value, data, chainId, 0, 0] and,
\* with it, 0x02 and the list [chainId, nonce, maxPriorityFeePerGas,
\* maxFeePerGas, gasLimit, to, value, data, []], the list's payload prefixed
\* with 0xc0 + length up to 55 bytes and with 0xf7 + L and the L-byte length
\* beyond.
C27_TransactionBytes ==
  EncodedBytes("serializeTransactionForLedger") =>
    encoding.output = HexPrefix \o hexOf(transactionEncoding(encoding.tx))

\* the transactions with data of 256 bytes are the ones that come out wrong
C27_ShortDataOnly ==
  EncodedBytes("serializeTransactionForLedger") =>
    ((encoding.output = HexPrefix \o hexOf(transactionEncoding(encoding.tx)))
       <=> Len(nullish(encoding.tx.data, HexPrefix)) < 2 + 2 * 256)

(***************************************************************************)
(* connect() under fairness: a vendor capability that a connect() call     *)
(* awaits resolves or rejects.  Nothing makes a caller call again, so      *)
(* only the settling of what connect() awaits is fair.                     *)
(***************************************************************************)
ConnectCapabilitySettles ==
  /\ pending.op = "connect"
  /\ \/ CreateTransportSettles
     \/ LoadEthAppSettles
     \/ ConnectProbeSettles
     \/ ImportSettles
     \/ InitSettles
     \/ GetFeaturesSettles

\* the calls of a manager and the settling of what they await: a listener
\* takes no part in whether a call settles, so none is registered
LiveNext ==
  \/ Connect
  \/ Disconnect
  \/ GetDeviceInfo
  \/ GetAppConfig
  \/ GetFeatures
  \/ VerifyAddress
  \/ CreateTransportSettles
  \/ LoadEthAppSettles
  \/ ConnectProbeSettles
  \/ CloseSettles
  \/ GetAppConfigurationSettles
  \/ GetAddressSettles
  \/ ImportSettles
  \/ InitSettles
  \/ GetFeaturesSettles
  \/ EthereumGetAddressSettles

LiveSpec == Init /\ [][LiveNext]_vars /\ WF_vars(ConnectCapabilitySettles)

\* a connect() call begun in a state other than 'connected' is in flight
ConnectInFlight == pending.op = "connect" /\ pending.stateAtCall # "connected"

\* a connect() call begun in a state other than 'connected' settled last
ConnectSettled == Idle /\ last.op = "connect" /\ last.stateAtCall # "connected"

ConnectSettledInItsState ==
  ConnectSettled =>
    /\ last.outcome \in {"resolved", "rejected"}
    /\ last.outcome = "resolved" => last.stateAtSettle = "connected"
    /\ last.outcome = "rejected" => last.stateAtSettle = "error"
    /\ state = last.stateAtSettle
    /\ state # "connecting"

C29_LedgerHandlesFollowState ==
  (kind = "ledger" /\ Idle) =>
    /\ (state = "connected") <=> (transport # 0)
    /\ (state = "connected") <=> (ethApp # 0)
    /\ Ledger_isConnected(Manager) <=> (state = "connected")
    /\ Ledger_isConnected(Manager) <=> (transport # 0)

\* a Ledger connect() that failed at its probe of the app, after the
\* transport and the app handle had been assigned
C29_Witness ==
  /\ kind = "ledger"
  /\ Idle
  /\ last.op = "connect"
  /\ last.outcome = "rejected"
  /\ Len(last.vendorCalls) = 3
  /\ last.vendorCalls[3].capability = "getAppConfiguration"
  /\ state = "error"
  /\ opened > 0

\* toViemSignature returned, given a v that encodes a recovery parity: 27,
\* 28 or a chain-protected v
Serialized ==
  /\ signing.fn = "toViemSignature"
  /\ signing.stage = "applied"
  /\ signing.signed.outcome = "resolved"
  /\ signing.v \in {27, 28} \cup 35..MaxV

\* the recovery byte of the parity a v encodes: 27 for 27 and an odd
\* chain-protected v, 28 for 28 and an even one
parityByte(v) == IF v = 27 \/ (v >= 35 /\ v % 2 = 1) THEN 27 ELSE 28

\* C30: the recovery byte toViemSignature returns has the parity its input
\* v encodes when s is at most n/2, and the opposite parity when s is above
\* n/2 and is replaced by n - s.
C30_RecoveryParityFollowsS ==
  Serialized =>
    signing.signed.signature.v =
      IF BigInt(signing.s) <= halfOrder THEN parityByte(signing.v)
      ELSE 55 - parityByte(signing.v)

\* the recovery byte has the parity of the input v whether or not s was
\* replaced
C30_RecoveryParityOfV ==
  Serialized => signing.signed.signature.v = parityByte(signing.v)


=============================================================================
